---- MODULE Spec2Model ----
(***************************************************************************)
(* Model of the artifact-pipeline workflows: the BuildResult aggregator    *)
(* (utils.py), the four packaging activities (activities/*.py) and the     *)
(* workflow drivers that sequence them (workflows/*.py).                   *)
(*                                                                         *)
(* Python strings are modelled as sequences of tokens (a token is an       *)
(* atomic piece of text); concatenation is \o, the empty string is <<>>.   *)
(* A path, an argv element, a version and the transcript are all such      *)
(* sequences, so that formatting, joining, splitting and prefix matching   *)
(* are computed rather than assumed.                                       *)
(***************************************************************************)
EXTENDS Integers, Sequences, FiniteSets, TLC

\* ------------------------------------------------------------------ bounds
\* Largest exit code an external tool is given in the model (0..MaxRet).
MaxRet == 1
\* Number of BuildResult method calls explored by the aggregator harness.
MaxCalls == 3
\* Largest number of lines of a credentials file.
MaxLines == 3
\* Attempts of the outdated-package query that are followed.
MaxAttempts == 3

\* ------------------------------------------------------- string primitives
IsPrefix(p, s) == Len(p) <= Len(s) /\ SubSeq(s, 1, Len(p)) = p

IsSuffix(p, s) == Len(p) <= Len(s) /\ SubSeq(s, Len(s) - Len(p) + 1, Len(s)) = p

\* Index of the first occurrence of sep in s, 0 when there is none.
FindFirst(s, sep) ==
    LET hits == {i \in 1..(Len(s) - Len(sep) + 1) : SubSeq(s, i, i + Len(sep) - 1) = sep}
    IN  IF hits = {} THEN 0 ELSE CHOOSE i \in hits : \A j \in hits : i <= j

Contains(s, sub) == FindFirst(s, sub) # 0

\* Python str.split(sep): the pieces between the non-overlapping
\* occurrences of sep, scanned left to right.
RECURSIVE Split(_, _)
Split(s, sep) ==
    LET i == FindFirst(s, sep)
    IN  IF i = 0 THEN <<s>>
        ELSE <<SubSeq(s, 1, i - 1)>> \o Split(SubSeq(s, i + Len(sep), Len(s)), sep)

\* Python " ".join(cmd)
RECURSIVE Join(_, _)
Join(parts, sep) ==
    IF parts = <<>> THEN <<>>
    ELSE IF Len(parts) = 1 THEN parts[1]
    ELSE parts[1] \o sep \o Join(Tail(parts), sep)

\* os.path.join(a, b) for a relative b
PathJoin(a, b) ==
    IF a = <<>> \/ IsSuffix(<<"/">>, a) THEN a \o b ELSE a \o <<"/">> \o b

\* Python None, kept apart from every exit code.
None == 0 - 256

TruthyNotNone(retcode) == retcode # None

\* The truth value Python gives an Optional[int].
Truthy(retcode) == retcode # None /\ retcode # 0

\* str(retcode) inside an f-string
PyStrInt(retcode) == ToString(retcode)

\* str(retcode) as the f-string of update_build_result renders it
PyStr(retcode) == IF retcode = None THEN "None" ELSE ToString(retcode)

\* ------------------------------------------------------------- the inputs
Nova == <<"nova">>
NovaClient == <<"nova", "client">>
Packages == {Nova, NovaClient}

WorkDir == <<"wd">>
LogDir == <<"logs">>
OsSeries == <<"antelope">>
Suffix == <<"~cloud0">>
SigningKey == <<"KEYID">>

\* Exit codes an external tool can return.
RetCodes == 0..MaxRet

\* Text an external tool can print (merged stdout and stderr).
ToolOutputs == {<<>>, <<"E: output", "\n">>}

\* Entries that can exist directly under work_dir.
DirNames ==
    { <<"nova", "-", "1">>, <<"nova", "-", "2">>, <<"nova", "client", "-", "1">> }

\* Files that can exist inside those directories.
FileUniverse ==
    { [dir |-> <<"nova", "-", "1">>, name |-> <<"nova", "_", "1", ".dsc">>],
      [dir |-> <<"nova", "-", "1">>, name |-> <<"nova", "_", "1", "_source.changes">>],
      [dir |-> <<"nova", "client", "-", "1">>,
       name |-> <<"nova", "client", "_", "1", ".dsc">>] }

VARIABLES
    kind,            \* which program runs: a workflow kind or the aggregator harness
    package_name,    \* the package_name argument of the run
    check_proposed,  \* the check_proposed argument of the run
    pc,              \* position of the workflow coroutine
    build,           \* the BuildResult object of the run
    constructed,     \* history: that object as its constructor left it
    retcode,         \* the workflow's local variable retcode
    result,          \* the activity result waiting to be received by the workflow
    dirs,            \* entries directly under work_dir
    files,           \* files inside those entries
    logs,            \* files written by write_build_result: path -> content
    invoked,         \* history: the steps scheduled so far, in order
    outcomes,        \* history: the outcome each executed step produced
    merged,          \* history: number of outcomes merged into the record
    flushes,         \* history: number of write_build_result calls made
    returned,        \* the value the workflow run returned
    overall_result,  \* batch: the overall_result local
    build_results,   \* batch: the build_results mapping
    calls,           \* harness: the BuildResult method calls made so far
    exclude_list,    \* batch: the exclude_list argument of the run
    staging_packages,\* batch: the mapping get_staging_packages returned
    packages,        \* batch: the outdated package names parsed from the query
    position,        \* batch: index in packages of the package being processed
    finals,          \* batch history: one summary per finished pipeline
    activities,      \* batch history: the batch-level activities executed
    error,           \* batch: the exception that ended the run, "" if none
    running,         \* scheduler: the executions the server knows, closed ones included
    replayed,        \* history: number of times the run was resumed by replay
    cli,             \* async_main: its options, position and effects
    novarc,          \* os_auth_env: the lines of the credentials file
    env,             \* os_auth_env: the environment built so far
    parsed,          \* os_auth_env: 1 once it returned, -1 once it raised
    publish,         \* swift_publish: its arguments, commands started, codes, return
    scan             \* the order in which the file system lists the files of work_dir

vars == <<kind, package_name, check_proposed, pc, build, constructed, retcode, result, dirs,
          files, logs, invoked, outcomes, merged, flushes, returned,
          overall_result, build_results, calls, exclude_list, staging_packages,
          packages, position, finals, activities, error, running, replayed,
          cli, novarc, env, parsed, publish, scan>>

fsVars == <<dirs, files>>
runVars == <<kind, package_name, check_proposed, constructed>>
wfVars == <<pc, retcode, result, invoked, outcomes, merged, flushes, returned,
            overall_result, build_results>>
batchVars == <<exclude_list, staging_packages, packages, position, finals,
               activities, error>>
auxVars == <<running, replayed, cli, novarc, env, parsed, publish, scan>>

\* ------------------------------------------------------------ filesystem
\* Names directly under work_dir: the build directories plus any log file
\* that write_build_result put there.
LogNamesIn(lg, d) ==
    { SubSeq(p, Len(d) + 2, Len(p)) :
        p \in { q \in DOMAIN lg : IsPrefix(d \o <<"/">>, q) } }

WorkDirEntries(ds, lg) == ds \cup LogNamesIn(lg, WorkDir)

\* glob(f"{work_dir}/{package}*"): every entry whose name starts with package
GlobBuildDir(package, ds, lg) ==
    { WorkDir \o <<"/">> \o e : e \in { x \in WorkDirEntries(ds, lg) : IsPrefix(package, x) } }

\* fnmatch of a file name against f"{package}_*{ext}"
MatchesArtifact(package, ext, name) ==
    /\ IsPrefix(package \o <<"_">>, name)
    /\ IsSuffix(<<ext>>, name)
    /\ Len(name) >= Len(package) + 2

\* glob(os.path.join(work_dir, f"{package}*", f"{package}_*{ext}"))
GlobArtifact(package, ext, ds, fs) ==
    { WorkDir \o <<"/">> \o f.dir \o <<"/">> \o f.name :
        f \in { g \in fs : /\ g.dir \in ds
                           /\ IsPrefix(package, g.dir)
                           /\ MatchesArtifact(package, ext, g.name) } }

\* The pattern string itself, as it is printed in the skip message.
ArtifactPattern(package, ext) ==
    WorkDir \o <<"/">> \o package \o <<"*">> \o <<"/">> \o package \o <<"_", "*", ext>>

\* ------------------------------------------------------------ BuildResult
\* BuildResult.__init__
BuildResult(package, version, status) ==
    [package |-> package, version |-> version, status |-> status,
     output |-> <<>>, logfile |-> <<>>]

\* No glob match: pkg_build_dir is the empty list.
NoMatch == <<>>

\* The values pkg_build_dir[0] can take: glob returns its matches in
\* directory order, so any match can come first.
GlobFirsts(package, ds, lg) ==
    IF GlobBuildDir(package, ds, lg) = {} THEN {NoMatch}
    ELSE GlobBuildDir(package, ds, lg)

\* The separator handed to str.split in version discovery.
VersionSep(package) == WorkDir \o <<"/">> \o package \o <<"-">>

\* The subscript [1] of the split raises IndexError when the separator
\* does not occur in the first match.
VersionRaises(self, first) ==
    /\ self.version = <<>>
    /\ first # NoMatch
    /\ Len(Split(first, VersionSep(self.package))) < 2

VersionAfterAlways(self, first) ==
    IF first # NoMatch
    THEN Split(first, VersionSep(self.package))[2]
    ELSE self.version

VersionAfter(self, first) ==
    IF self.version = <<>> /\ first # NoMatch
    THEN Split(first, VersionSep(self.package))[2]
    ELSE self.version

StatusAfterReset(self, rc) ==
    IF Truthy(rc) THEN "failed" ELSE "current"

StatusAfter(self, rc) ==
    IF Truthy(rc) THEN "failed" ELSE self.status

FormattedCodeFirst(cmd, rc, output) ==
    <<"+ ">> \o Join(cmd, <<" ">>) \o <<"\n">>
        \o <<"+ return code: ", PyStr(rc), "\n">> \o output

\* formatted = f"+ {' '.join(cmd)}\n{output}+ return code: {retcode}\n"
Formatted(cmd, rc, output) ==
    <<"+ ">> \o Join(cmd, <<" ">>) \o <<"\n">> \o output
        \o <<"+ return code: ", PyStr(rc), "\n">>

OutputAfterPrepending(self, cmd, rc, output) ==
    IF self.output = <<>> THEN Formatted(cmd, rc, output)
    ELSE Formatted(cmd, rc, output) \o <<"\n">> \o self.output

OutputAfterSkipEmpty(self, cmd, rc, output) ==
    IF output = <<>> THEN self.output
    ELSE IF self.output = <<>> THEN Formatted(cmd, rc, output)
    ELSE self.output \o <<"\n">> \o Formatted(cmd, rc, output)

OutputAfter(self, cmd, rc, output) ==
    IF self.output = <<>> THEN Formatted(cmd, rc, output)
    ELSE self.output \o <<"\n">> \o Formatted(cmd, rc, output)

LogfileNameBare(package, version) ==
    IF version = <<>> THEN package ELSE package \o <<"-">> \o version

LogfileName(package, version) == package \o <<"-">> \o version \o <<".build">>

update_build_resultReplacing(self, cmd, rc, output, first) ==
    [package |-> self.package,
     version |-> VersionAfter(self, first),
     status  |-> StatusAfter(self, rc),
     output  |-> Formatted(cmd, rc, output),
     logfile |-> LogfileName(self.package, VersionAfter(self, first))]

\* BuildResult.update_build_result, given the first glob match
update_build_result(self, cmd, rc, output, first) ==
    [package |-> self.package,
     version |-> VersionAfter(self, first),
     status  |-> StatusAfter(self, rc),
     output  |-> OutputAfter(self, cmd, rc, output),
     logfile |-> LogfileName(self.package, VersionAfter(self, first))]

\* BuildResult.write_build_result: the path it opens
LogfilePath(self, log_dir) == PathJoin(log_dir, self.logfile)

\* open(path, "w") raises IsADirectoryError when logfile is still "" and
\* the joined path is the log directory itself.
WriteRaises(self, log_dir) == self.logfile = <<>>

\* open(logfile_path, "w") and f.write(self.output): the file is created or
\* truncated and holds the transcript.
LogsAfterWrite(lg, path, content) ==
    [p \in DOMAIN lg \cup {path} |-> IF p = path THEN content ELSE lg[p]]

BuildAfterWriteReset(self) == [self EXCEPT !.output = <<>>, !.status = "current"]

BuildAfterWrite(self) == [self EXCEPT !.output = <<>>]

NoLogs == [p \in {} |-> <<>>]

\* An empty build_results mapping.
NoResults == [p \in {} |-> <<>>]

\* build_results[package_name] = build
ResultsAfterStoreKeepingFirst(results, package, b) ==
    [p \in DOMAIN results \cup {package} |->
       IF p \in DOMAIN results THEN results[p] ELSE b]

\* build_results[package_name] = build
ResultsAfterStore(results, package, b) ==
    [p \in DOMAIN results \cup {package} |-> IF p = package THEN b ELSE results[p]]

\* The variables of the launchers, the scheduler and the credentials
\* parser while a single run is looked at on its own.
NoCli == [pc |-> "none", os_series |-> <<>>, novarc_isfile |-> FALSE,
          connected |-> FALSE, made |-> <<>>, submitted |-> FALSE, error |-> ""]
NoPublish == [pc |-> "none", path |-> <<>>, header |-> <<>>, started |-> <<>>,
              codes |-> <<>>, ret |-> <<>>]
NoAux ==
    /\ running = {}
    /\ replayed = 0
    /\ cli = NoCli
    /\ novarc = <<>>
    /\ env = NoLogs
    /\ parsed = 0
    /\ publish = NoPublish
    /\ scan = <<>>

\* No batch is in progress: the state of the batch variables in a run of a
\* single pipeline.
NoBatch ==
    /\ exclude_list = <<>>
    /\ staging_packages = NoResults
    /\ packages = <<>>
    /\ position = 0
    /\ finals = <<>>
    /\ activities = <<>>
    /\ error = ""

\* ------------------------------------------------- changes of work_dir
\* The external tools and any other process sharing work_dir create and
\* remove build directories and artifacts while a run is in progress.
\* (Once the harness has made its last call no later change can be observed.)
Running ==
    \/ pc \in {"await", "resume"}
    \/ pc = "api" /\ Len(calls) < MaxCalls

AddDir ==
    /\ Running
    /\ \E d \in DirNames \ dirs : dirs' = dirs \cup {d}
    /\ UNCHANGED <<files, logs, build, calls>>
    /\ UNCHANGED runVars /\ UNCHANGED batchVars
    /\ UNCHANGED auxVars /\ UNCHANGED wfVars

RemoveDir ==
    /\ Running
    /\ \E d \in dirs :
         /\ dirs' = dirs \ {d}
         /\ files' = { f \in files : f.dir # d }
    /\ UNCHANGED <<logs, build, calls>>
    /\ UNCHANGED runVars /\ UNCHANGED batchVars
    /\ UNCHANGED auxVars /\ UNCHANGED wfVars

AddFile ==
    /\ Running
    /\ \E f \in FileUniverse \ files :
         /\ f.dir \in dirs
         /\ files' = files \cup {f}
    /\ UNCHANGED <<dirs, logs, build, calls>>
    /\ UNCHANGED runVars /\ UNCHANGED batchVars
    /\ UNCHANGED auxVars /\ UNCHANGED wfVars

RemoveFile ==
    /\ Running
    /\ \E f \in files : files' = files \ {f}
    /\ UNCHANGED <<dirs, logs, build, calls>>
    /\ UNCHANGED runVars /\ UNCHANGED batchVars
    /\ UNCHANGED auxVars /\ UNCHANGED wfVars

\* ------------------------------------------- the aggregator on its own
\* Any caller of BuildResult: a record is constructed and then receives
\* update_build_result and write_build_result calls in any order.
\* The two ways the workflows construct a record: BuildResult(package) in a
\* pipeline, BuildResult(package, version, status) when seeding a report.
InitRecords(package) ==
    { BuildResult(package, <<>>, "current"),
      BuildResult(package, <<"9">>, "current"),
      BuildResult(package, <<"9">>, "Needs building") }
HarnessPackages == {Nova}
\* The arguments the workflows pass to update_build_result: the seeding
\* call (cmd=[], retcode=0, output="") and a step outcome, whose exit code
\* is typed Optional[int].
HarnessCmd == <<<<"tool">>, <<"arg">>>>
HarnessRetCodes == {None, 0, 1}
HarnessInputs ==
    { [cmd |-> <<>>, retcode |-> 0, output |-> <<>>] }
    \cup [cmd : {HarnessCmd}, retcode : HarnessRetCodes, output : ToolOutputs]
HarnessLogDirs == {LogDir, WorkDir}

NoCall ==
    [op |-> "none", cmd |-> <<>>, retcode |-> 0, output |-> <<>>,
     log_dir |-> <<>>, raised |-> FALSE, rival |-> FALSE, ret |-> <<>>]

\* History only: at the time of a call the record has a version and work_dir
\* holds an entry that discovery would not map to that version.
Rival(self, ds, lg) ==
    /\ self.version # <<>>
    /\ \E m \in GlobBuildDir(self.package, ds, lg) :
         \/ Len(Split(m, VersionSep(self.package))) < 2
         \/ Split(m, VersionSep(self.package))[2] # self.version

InitBuildResult ==
    /\ kind = "BuildResult"
    /\ package_name \in HarnessPackages
    /\ check_proposed = TRUE
    /\ pc = "api"
    /\ build \in InitRecords(package_name)
    /\ constructed = build
    /\ retcode = 0
    /\ result = NoCall
    /\ dirs = {}
    /\ files = {}
    /\ logs = NoLogs
    /\ invoked = <<>>
    /\ outcomes = <<>>
    /\ merged = 0
    /\ flushes = 0
    /\ returned = <<>>
    /\ overall_result = "Success"
    /\ build_results = NoResults
    /\ calls = <<>>
    /\ NoBatch
    /\ NoAux

\* ret is the value the call returned: write_build_result returns
\* logfile_path, update_build_result and a call that raised return nothing.
CallRecord(op, cmd, rc, output, log_dir, raised) ==
    [op |-> op, cmd |-> cmd, retcode |-> rc, output |-> output,
     log_dir |-> log_dir, raised |-> raised,
     rival |-> (op = "update" /\ Rival(build, dirs, logs)),
     ret |-> IF op = "write" /\ ~raised THEN LogfilePath(build, log_dir) ELSE <<>>]

CallUpdate ==
    /\ pc = "api"
    /\ Len(calls) < MaxCalls
    /\ \E in \in HarnessInputs, first \in GlobFirsts(build.package, dirs, logs) :
         /\ ~VersionRaises(build, first)
         /\ build' = update_build_result(build, in.cmd, in.retcode, in.output, first)
         /\ calls' = Append(calls, CallRecord("update", in.cmd, in.retcode,
                                              in.output, <<>>, FALSE))
    /\ UNCHANGED <<logs>>
    /\ UNCHANGED fsVars /\ UNCHANGED runVars /\ UNCHANGED batchVars
    /\ UNCHANGED auxVars /\ UNCHANGED wfVars

CallUpdateRaises ==
    /\ pc = "api"
    /\ Len(calls) < MaxCalls
    /\ \E in \in HarnessInputs, first \in GlobFirsts(build.package, dirs, logs) :
         /\ VersionRaises(build, first)
         /\ calls' = Append(calls, CallRecord("update", in.cmd, in.retcode,
                                              in.output, <<>>, TRUE))
    /\ UNCHANGED <<logs, build>>
    /\ UNCHANGED fsVars /\ UNCHANGED runVars /\ UNCHANGED batchVars
    /\ UNCHANGED auxVars /\ UNCHANGED wfVars

CallWrite ==
    /\ pc = "api"
    /\ Len(calls) < MaxCalls
    /\ \E log_dir \in HarnessLogDirs :
         /\ ~WriteRaises(build, log_dir)
         /\ logs' = LogsAfterWrite(logs, LogfilePath(build, log_dir), build.output)
         /\ build' = BuildAfterWrite(build)
         /\ calls' = Append(calls, CallRecord("write", <<>>, 0, <<>>, log_dir, FALSE))
    /\ UNCHANGED fsVars /\ UNCHANGED runVars /\ UNCHANGED batchVars
    /\ UNCHANGED auxVars /\ UNCHANGED wfVars

CallWriteRaises ==
    /\ pc = "api"
    /\ Len(calls) < MaxCalls
    /\ \E log_dir \in HarnessLogDirs :
         /\ WriteRaises(build, log_dir)
         /\ calls' = Append(calls, CallRecord("write", <<>>, 0, <<>>, log_dir, TRUE))
    /\ UNCHANGED <<logs, build>>
    /\ UNCHANGED fsVars /\ UNCHANGED runVars /\ UNCHANGED batchVars
    /\ UNCHANGED auxVars /\ UNCHANGED wfVars

NextBuildResult ==
    \/ CallUpdate
    \/ CallUpdateRaises
    \/ CallWrite
    \/ CallWriteRaises
    \/ AddDir
    \/ RemoveDir

SpecBuildResult == InitBuildResult /\ [][NextBuildResult]_vars

\* ------------------------------------------------------------ activities
\* The four steps, by position.
PREPARE == 1
BUILD == 2
SIGN == 3
UPLOAD == 4
NumSteps == 4

Kinds == {"BackportPackage", "ArchiveBackport", "BackportOMatic"}

\* The activity module a workflow kind imports.
ActivityModule(k) ==
    IF k = "ArchiveBackport" THEN "archive_backport" ELSE "backport_package"

\* The directory a workflow kind hands to write_build_result.
LogDirOf(k) == IF k = "BackportPackage" THEN WorkDir ELSE LogDir

\* The check_proposed values a workflow kind can run with.
ProposedOf(k) == IF k = "BackportOMatic" THEN {TRUE} ELSE BOOLEAN

\* prepare_package: the argv it builds
prepare_package_cmd(module, package, proposed) ==
    LET head == << <<"cloud-archive-backport">>, <<"--suffix">>, Suffix, <<"--yes">>,
                   <<"--release">>, OsSeries, <<"--outdir">>, WorkDir >>
        flag == IF proposed THEN << <<"--proposed">> >> ELSE <<>>
    IN  IF module = "archive_backport"
        THEN head \o <<package>> \o flag \o <<package>>
        ELSE head \o flag \o <<package>>

\* The argv of build_package, sign_package and upload_package before the
\* artifact path is appended.
BaseCmd(step) ==
    CASE step = BUILD  -> << <<"sbuild-">> \o OsSeries, <<"--nolog">>, <<"--arch-all">> >>
      [] step = SIGN   -> << <<"debsign">>, <<"-k">> \o SigningKey >>
      [] step = UPLOAD -> << <<"dput">>, <<"--force">>,
                             <<"ppa:ubuntu-cloud-archive/">> \o OsSeries \o <<"-staging">> >>

\* The artifact each step looks for.
ArtifactExt(step) == IF step = BUILD THEN ".dsc" ELSE "_source.changes"

\* The tool named in the skip message.
SkippedTool(step) ==
    CASE step = BUILD -> "sbuild" [] step = SIGN -> "debsign" [] step = UPLOAD -> "dput"

\* The first argv token of each step, as it shows in a transcript block.
ToolToken(step) ==
    CASE step = PREPARE -> "cloud-archive-backport"
      [] step = BUILD   -> "sbuild-"
      [] step = SIGN    -> "debsign"
      [] step = UPLOAD  -> "dput"

ArtifactsOf(step, package, ds, fs) ==
    GlobArtifact(package, ArtifactExt(step), ds, fs)

SkipOutcomeFailing(step, package) ==
    [cmd     |-> BaseCmd(step),
     retcode |-> 1,
     output  |-> ArtifactPattern(package, ArtifactExt(step))
                   \o <<" ", "does not exist. Skipping", " ", SkippedTool(step), ".">>
                   \o <<"\n">>]

\* backport_package: what a step returns when its glob is empty
SkipOutcome(step, package) ==
    [cmd     |-> BaseCmd(step),
     retcode |-> 0,
     output  |-> ArtifactPattern(package, ArtifactExt(step))
                   \o <<" ", "does not exist. Skipping", " ", SkippedTool(step), ".">>
                   \o <<"\n">>]

\* archive_backport subscripts the glob result without testing it: an empty
\* glob raises IndexError inside the activity.
ActivityRaisesOn(module, step, package, ds, fs) ==
    /\ module = "archive_backport"
    /\ step # PREPARE
    /\ ArtifactsOf(step, package, ds, fs) = {}

\* The outcomes (cmd, returncode, output) an activity can return.
ActivityOutcomes(module, step, package, proposed, ds, fs) ==
    IF step = PREPARE
    THEN [cmd : {prepare_package_cmd(module, package, proposed)},
          retcode : RetCodes, output : ToolOutputs]
    ELSE IF ArtifactsOf(step, package, ds, fs) = {}
    THEN IF module = "backport_package" THEN {SkipOutcome(step, package)} ELSE {}
    ELSE [cmd : { BaseCmd(step) \o <<a>> : a \in ArtifactsOf(step, package, ds, fs) },
          retcode : RetCodes, output : ToolOutputs]

LaunchedBeforeLookup(step, o, found) == <<o.cmd>>

\* The processes an activity started by the time it returns o: the tool is
\* run by asyncio_create_subprocess_exec, which BUILD, SIGN and UPLOAD reach
\* only behind the "if not ..._glob: return".
Launched(step, o, found) ==
    IF step = PREPARE \/ found THEN <<o.cmd>> ELSE <<>>

\* ------------------------------------------------------------- workflows
AdvanceAlways(step, rc) == step < NumSteps

\* "if not retcode:" in front of each later step
Advance(step, rc) == ~Truthy(rc) /\ step < NumSteps

NextStepSkipping(step) == step + 2

NextStep(step) == step + 1

ReturnValueZero(rc, log_file) == <<0, log_file>>

\* "return (retcode, log_file)"
ReturnValue(rc, log_file) == <<rc, log_file>>

FinalizeUnlessFailed(b, log_dir, lg) ==
    IF b.status = "failed"
    THEN [build |-> b, logs |-> lg, log_file |-> <<>>, writes |-> 0]
    ELSE [build    |-> BuildAfterWrite(b),
          logs     |-> LogsAfterWrite(lg, LogfilePath(b, log_dir), b.output),
          log_file |-> LogfilePath(b, log_dir),
          writes   |-> 1]

\* "log_file = build.write_build_result(log_dir)": the record, the log
\* directory and the returned path after the call, and the calls made.
Finalize(b, log_dir, lg) ==
    [build    |-> BuildAfterWrite(b),
     logs     |-> LogsAfterWrite(lg, LogfilePath(b, log_dir), b.output),
     log_file |-> LogfilePath(b, log_dir),
     writes   |-> 1]

NoResult == [cmd |-> <<>>, retcode |-> 0, output |-> <<>>]

FsStates ==
    { fs \in [dirs : SUBSET DirNames, files : SUBSET FileUniverse] :
        \A f \in fs.files : f.dir \in fs.dirs }

Init ==
    /\ kind \in Kinds
    /\ package_name \in Packages
    /\ check_proposed \in ProposedOf(kind)
    /\ pc = "start"
    /\ build = BuildResult(package_name, <<>>, "current")
    /\ constructed = build
    /\ retcode = 0
    /\ result = NoResult
    /\ \E fs \in FsStates : dirs = fs.dirs /\ files = fs.files
    /\ logs = NoLogs
    /\ invoked = <<>>
    /\ outcomes = <<>>
    /\ merged = 0
    /\ flushes = 0
    /\ returned = <<>>
    /\ overall_result \in (IF kind = "BackportOMatic" THEN {"Success", "Failed"}
                           ELSE {"Success"})
    /\ build_results = NoResults
    /\ calls = <<>>
    /\ NoBatch
    /\ NoAux

\* The run reaches its first await: PREPARE is scheduled.
Start ==
    /\ pc = "start"
    /\ invoked' = <<PREPARE>>
    /\ pc' = "await"
    /\ UNCHANGED <<build, retcode, result, logs, outcomes, merged, flushes,
                   returned, overall_result, build_results, calls>>
    /\ UNCHANGED fsVars /\ UNCHANGED runVars /\ UNCHANGED batchVars
    /\ UNCHANGED auxVars

CurrentStep == invoked[Len(invoked)]

\* The worker executes the scheduled activity to its return statement.
RunActivity ==
    /\ pc = "await"
    /\ \E o \in ActivityOutcomes(ActivityModule(kind), CurrentStep, package_name,
                                 check_proposed, dirs, files) :
         /\ result' = o
         /\ outcomes' = Append(outcomes,
              [step |-> CurrentStep, cmd |-> o.cmd, retcode |-> o.retcode,
               output |-> o.output,
               absent |-> (CurrentStep # PREPARE
                           /\ ArtifactsOf(CurrentStep, package_name, dirs, files) = {}),
               launched |-> Launched(CurrentStep, o,
                              ArtifactsOf(CurrentStep, package_name, dirs, files) # {}),
               raised |-> FALSE])
    /\ pc' = "resume"
    /\ UNCHANGED <<build, retcode, logs, invoked, merged, flushes, returned,
                   overall_result, build_results, calls>>
    /\ UNCHANGED fsVars /\ UNCHANGED runVars /\ UNCHANGED batchVars
    /\ UNCHANGED auxVars

\* The activity raises: no outcome reaches the workflow.
ActivityRaises ==
    /\ pc = "await"
    /\ ActivityRaisesOn(ActivityModule(kind), CurrentStep, package_name, dirs, files)
    /\ outcomes' = Append(outcomes,
         [step |-> CurrentStep, cmd |-> <<>>, retcode |-> 0, output |-> <<>>,
          absent |-> TRUE, launched |-> <<>>, raised |-> TRUE])
    /\ pc' = "activity_failed"
    /\ UNCHANGED <<build, retcode, result, logs, invoked, merged, flushes, returned,
                   overall_result, build_results, calls>>
    /\ UNCHANGED fsVars /\ UNCHANGED runVars /\ UNCHANGED batchVars
    /\ UNCHANGED auxVars

\* The workflow receives the outcome, merges it and schedules the next step.
ResumeAdvance ==
    /\ pc = "resume"
    /\ Advance(CurrentStep, result.retcode)
    /\ \E first \in GlobFirsts(build.package, dirs, logs) :
         /\ ~VersionRaises(build, first)
         /\ build' = update_build_result(build, result.cmd, result.retcode,
                                         result.output, first)
    /\ retcode' = result.retcode
    /\ merged' = merged + 1
    /\ invoked' = Append(invoked, NextStep(CurrentStep))
    /\ pc' = "await"
    /\ UNCHANGED <<result, logs, outcomes, flushes, returned, overall_result,
                   build_results, calls>>
    /\ UNCHANGED fsVars /\ UNCHANGED runVars /\ UNCHANGED batchVars
    /\ UNCHANGED auxVars

\* The workflow receives the outcome, merges it, writes the log and returns
\* (a batch iteration records the record and the overall result instead).
ResumeFinish ==
    /\ pc = "resume"
    /\ ~Advance(CurrentStep, result.retcode)
    /\ \E first \in GlobFirsts(build.package, dirs, logs) :
         /\ ~VersionRaises(build, first)
         /\ LET b   == update_build_result(build, result.cmd, result.retcode,
                                           result.output, first)
                fin == Finalize(b, LogDirOf(kind), logs)
            IN  /\ build' = fin.build
                /\ logs' = fin.logs
                /\ flushes' = flushes + fin.writes
                /\ returned' = IF kind = "BackportOMatic" THEN <<>>
                               ELSE ReturnValue(result.retcode, fin.log_file)
                /\ build_results' = IF kind = "BackportOMatic"
                                    THEN ResultsAfterStore(build_results,
                                                           package_name, fin.build)
                                    ELSE build_results
    /\ retcode' = result.retcode
    /\ merged' = merged + 1
    /\ overall_result' = IF kind = "BackportOMatic" /\ Truthy(result.retcode)
                         THEN "Failed" ELSE overall_result
    /\ pc' = "done"
    /\ UNCHANGED <<result, invoked, outcomes, calls>>
    /\ UNCHANGED fsVars /\ UNCHANGED runVars /\ UNCHANGED batchVars
    /\ UNCHANGED auxVars

\* update_build_result raises IndexError inside the workflow: the run makes
\* no further progress from here.
ResumeRaises ==
    /\ pc = "resume"
    /\ \E first \in GlobFirsts(build.package, dirs, logs) : VersionRaises(build, first)
    /\ retcode' = result.retcode
    /\ pc' = "workflow_failed"
    /\ UNCHANGED <<build, result, logs, invoked, outcomes, merged, flushes, returned,
                   overall_result, build_results, calls>>
    /\ UNCHANGED fsVars /\ UNCHANGED runVars /\ UNCHANGED batchVars
    /\ UNCHANGED auxVars

Next ==
    \/ Start
    \/ RunActivity
    \/ ActivityRaises
    \/ ResumeAdvance
    \/ ResumeFinish
    \/ ResumeRaises
    \/ AddDir
    \/ RemoveDir
    \/ AddFile
    \/ RemoveFile

Spec == Init /\ [][Next]_vars

\* ------------------------------------------------- an undisturbed run
\* A pipeline in a work_dir that nothing but the run's own tools touches:
\* the file system lists the files in one order for the whole run, and
\* glob returns its matches in that order.
StaticFiles ==
    FileUniverse \cup
    { [dir |-> <<"nova", "-", "2">>, name |-> <<"nova", "_", "2", "_source.changes">>] }

StaticFsStates ==
    LET d1  == <<"nova", "-", "1">>
        d2  == <<"nova", "-", "2">>
        dc  == <<"nova", "client", "-", "1">>
        chg == { f \in StaticFiles : f.name[Len(f.name)] = "_source.changes" }
    IN  { [dirs |-> {}, files |-> {}],
          [dirs |-> {d1}, files |-> { f \in StaticFiles : f.dir = d1 }],
          [dirs |-> {d1, d2}, files |-> { f \in StaticFiles : f.dir \in {d1, d2} }],
          [dirs |-> {d1, d2}, files |-> chg],
          [dirs |-> {dc}, files |-> { f \in StaticFiles : f.dir = dc }],
          [dirs |-> {d1, dc}, files |-> { f \in StaticFiles : f.dir \in {d1, dc} }] }

\* The orders in which a set of files can be listed.
Orders(S) ==
    { q \in [1..Cardinality(S) -> S] : { q[i] : i \in 1..Cardinality(S) } = S }

\* glob(os.path.join(work_dir, f"{package}*", f"{package}_*{ext}")): the
\* matching files in listing order
GlobArtifactList(package, ext, ds, sc) ==
    SelectSeq(sc, LAMBDA g : /\ g.dir \in ds
                             /\ IsPrefix(package, g.dir)
                             /\ MatchesArtifact(package, ext, g.name))

FilePath(g) == WorkDir \o <<"/">> \o g.dir \o <<"/">> \o g.name

StaticArtifactUploadLast(step, package, ds, sc) ==
    LET l == GlobArtifactList(package, ArtifactExt(step), ds, sc)
    IN  IF step = UPLOAD THEN FilePath(l[Len(l)]) ELSE FilePath(l[1])

\* dsc_path_glob[0], changes_path_glob[0]
StaticArtifact(step, package, ds, sc) ==
    FilePath(GlobArtifactList(package, ArtifactExt(step), ds, sc)[1])

\* The outcomes an activity can return in the undisturbed work_dir.
StaticOutcomes(module, step, package, proposed, ds, sc) ==
    IF step = PREPARE
    THEN [cmd : {prepare_package_cmd(module, package, proposed)},
          retcode : RetCodes, output : ToolOutputs]
    ELSE IF GlobArtifactList(package, ArtifactExt(step), ds, sc) = <<>>
    THEN IF module = "backport_package" THEN {SkipOutcome(step, package)} ELSE {}
    ELSE [cmd : { BaseCmd(step) \o <<StaticArtifact(step, package, ds, sc)>> },
          retcode : RetCodes, output : ToolOutputs]

InitStatic ==
    /\ kind \in Kinds
    /\ package_name \in Packages
    /\ check_proposed \in ProposedOf(kind)
    /\ pc = "start"
    /\ build = BuildResult(package_name, <<>>, "current")
    /\ constructed = build
    /\ retcode = 0
    /\ result = NoResult
    /\ \E fs \in StaticFsStates : dirs = fs.dirs /\ files = fs.files
    /\ logs = NoLogs
    /\ invoked = <<>>
    /\ outcomes = <<>>
    /\ merged = 0
    /\ flushes = 0
    /\ returned = <<>>
    /\ overall_result = "Success"
    /\ build_results = NoResults
    /\ calls = <<>>
    /\ NoBatch
    /\ running = {}
    /\ replayed = 0
    /\ cli = NoCli
    /\ novarc = <<>>
    /\ env = NoLogs
    /\ parsed = 0
    /\ publish = NoPublish
    /\ scan \in Orders(files)

\* The worker executes the scheduled activity to its return statement.
RunActivityStatic ==
    /\ pc = "await"
    /\ \E o \in StaticOutcomes(ActivityModule(kind), CurrentStep, package_name,
                               check_proposed, dirs, scan) :
         /\ result' = o
         /\ outcomes' = Append(outcomes,
              [step |-> CurrentStep, cmd |-> o.cmd, retcode |-> o.retcode,
               output |-> o.output,
               absent |-> (CurrentStep # PREPARE
                           /\ ArtifactsOf(CurrentStep, package_name, dirs, files) = {}),
               launched |-> Launched(CurrentStep, o,
                              ArtifactsOf(CurrentStep, package_name, dirs, files) # {}),
               raised |-> FALSE])
    /\ pc' = "resume"
    /\ UNCHANGED <<build, retcode, logs, invoked, merged, flushes, returned,
                   overall_result, build_results, calls>>
    /\ UNCHANGED fsVars /\ UNCHANGED runVars /\ UNCHANGED batchVars
    /\ UNCHANGED auxVars

NextStatic ==
    \/ Start
    \/ RunActivityStatic
    \/ ActivityRaises
    \/ ResumeAdvance
    \/ ResumeFinish
    \/ ResumeRaises

SpecStatic == InitStatic /\ [][NextStatic]_vars

\* ------------------------------------------------ absent exit codes
\* The activities return process.returncode, which asyncio types as
\* Optional[int]: a pipeline in which a step that ran its tool can also hand
\* None to the workflow. work_dir is as the run finds it.
RunActivityNone ==
    /\ pc = "await"
    /\ \E o \in { x \in ActivityOutcomes(ActivityModule(kind), CurrentStep, package_name,
                                         check_proposed, dirs, files) :
                    x.retcode = 0 } :
         /\ result' = [o EXCEPT !.retcode = None]
         /\ outcomes' = Append(outcomes,
              [step |-> CurrentStep, cmd |-> o.cmd, retcode |-> None,
               output |-> o.output,
               absent |-> (CurrentStep # PREPARE
                           /\ ArtifactsOf(CurrentStep, package_name, dirs, files) = {}),
               launched |-> Launched(CurrentStep, o,
                              ArtifactsOf(CurrentStep, package_name, dirs, files) # {}),
               raised |-> FALSE])
    /\ pc' = "resume"
    /\ UNCHANGED <<build, retcode, logs, invoked, merged, flushes, returned,
                   overall_result, build_results, calls>>
    /\ UNCHANGED fsVars /\ UNCHANGED runVars /\ UNCHANGED batchVars
    /\ UNCHANGED auxVars

NextOptional ==
    \/ Start
    \/ RunActivity
    \/ RunActivityNone
    \/ ActivityRaises
    \/ ResumeAdvance
    \/ ResumeFinish
    \/ ResumeRaises

SpecOptional == Init /\ [][NextOptional]_vars

\* ----------------------------------------------------------- replay
\* The worker that holds a run is lost while the run waits for a step; the
\* run is resumed on a worker that re-executes run() from its first line.
\* Every execute_activity of a completed step yields the recorded result
\* without running the step; the code between the awaits is executed again,
\* and with it the glob of update_build_result, against work_dir as it is
\* now. The replay is over before work_dir changes again.
MaxReplays == 1

\* The record after the recorded outcomes k..n have been merged again, the
\* glob giving first whenever it is consulted.
RECURSIVE ReplayMerges(_, _, _, _, _)
ReplayMerges(b, outs, k, n, first) ==
    IF k > n THEN b
    ELSE ReplayMerges(update_build_result(b, outs[k].cmd, outs[k].retcode,
                                          outs[k].output, first),
                      outs, k + 1, n, first)

Replay ==
    /\ pc \in {"await", "resume"}
    /\ replayed < MaxReplays
    /\ \E first \in GlobFirsts(package_name, dirs, logs) :
         /\ ~(merged > 0 /\ VersionRaises(constructed, first))
         /\ build' = ReplayMerges(constructed, outcomes, 1, merged, first)
    /\ replayed' = replayed + 1
    /\ UNCHANGED <<logs, calls>>
    /\ UNCHANGED fsVars /\ UNCHANGED <<kind, package_name, check_proposed, constructed>>
    /\ UNCHANGED wfVars /\ UNCHANGED batchVars
    /\ UNCHANGED <<running, cli, novarc, env, parsed, publish, scan>>

\* The first merge of the replay raises IndexError.
ReplayRaises ==
    /\ pc \in {"await", "resume"}
    /\ replayed < MaxReplays
    /\ merged > 0
    /\ \E first \in GlobFirsts(package_name, dirs, logs) : VersionRaises(constructed, first)
    /\ replayed' = replayed + 1
    /\ pc' = "workflow_failed"
    /\ UNCHANGED <<build, logs, calls>>
    /\ UNCHANGED fsVars /\ UNCHANGED <<kind, package_name, check_proposed, constructed>>
    /\ UNCHANGED <<retcode, result, invoked, outcomes, merged, flushes, returned,
                   overall_result, build_results>>
    /\ UNCHANGED batchVars
    /\ UNCHANGED <<running, cli, novarc, env, parsed, publish, scan>>

NextReplay ==
    \/ Next
    \/ Replay
    \/ ReplayRaises

SpecReplay == Init /\ [][NextReplay]_vars

\* ------------------------------------------------------------ the batch
\* BackportOMatic.run from its first await to its return. The pipeline of
\* one outdated package is the one of Spec (RunActivity, ResumeAdvance,
\* ResumeRaises); the segment that ends an iteration also starts the next.
\* work_dir is as the run finds it and does not change during a batch run
\* (Spec covers the changes during a pipeline). An activity that the
\* runtime retries after a failure or a timeout leaves the workflow waiting
\* where it is, which is a stuttering step here.
Glance == <<"glance">>
Keystone == <<"keystone">>
Horizon == <<"horizon">>
WwwDir == <<"www">>

\* What work_dir holds when a batch run starts.
BatchFsStates ==
    { [dirs |-> {}, files |-> {}],
      [dirs |-> {<<"nova", "-", "1">>},
       files |-> { f \in FileUniverse : f.dir = <<"nova", "-", "1">> }],
      [dirs |-> {<<"nova", "client", "-", "1">>}, files |-> {}],
      [dirs |-> {<<"nova", "-", "1">>, <<"nova", "client", "-", "1">>},
       files |-> FileUniverse] }

\* The exclude_list argument.
ExcludeLists == { <<>>, <<NovaClient>>, <<Nova, Glance>> }

\* package_map as get_staging_packages builds it: source package name ->
\* (source_package_version, state).
StagingMaps ==
    { [p \in {} |-> <<>>],
      [p \in {Glance, Keystone, Horizon} |-> << <<"3">>, "current" >>],
      [p \in {Glance, Nova} |->
         IF p = Nova THEN << <<"9">>, "Needs building" >> ELSE << <<"3">>, "current" >>] }

\* What cloud-archive-outdated-packages prints: package names separated by
\* blanks.
QueryStdouts ==
    { <<"\n">>,
      Nova \o <<"\n">>,
      Nova \o <<" ">> \o NovaClient \o <<"\n">>,
      NovaClient \o <<" ", " ">> \o Nova,
      Glance \o <<" ">> \o Nova \o <<"\n">> }

\* Python str.strip()
WhiteSpace == {" ", "\n"}
RECURSIVE LStrip(_)
LStrip(s) == IF s # <<>> /\ Head(s) \in WhiteSpace THEN LStrip(Tail(s)) ELSE s
RECURSIVE RStrip(_)
RStrip(s) ==
    IF s # <<>> /\ s[Len(s)] \in WhiteSpace THEN RStrip(SubSeq(s, 1, Len(s) - 1)) ELSE s
Strip(s) == RStrip(LStrip(s))

\* packages = [p for p in output.strip().split(" ") if p]
ParsePackages(output) ==
    SelectSeq(Split(Strip(output), <<" ">>), LAMBDA p : p # <<>>)

ExcludedNever(excl, p) == FALSE

\* "if exclude_list and package_name in exclude_list: continue"
Excluded(excl, p) == excl # <<>> /\ \E i \in 1..Len(excl) : excl[i] = p

NextIndexLast(pkgs, excl, i) ==
    LET later == { j \in (i + 1)..Len(pkgs) : ~Excluded(excl, pkgs[j]) }
    IN  IF later = {} THEN Len(pkgs) + 1
        ELSE CHOOSE j \in later : \A k \in later : j >= k

\* The next index after i of a package the loop does not skip, or
\* Len(pkgs) + 1 when the loop is over.
NextIndex(pkgs, excl, i) ==
    LET later == { j \in (i + 1)..Len(pkgs) : ~Excluded(excl, pkgs[j]) }
    IN  IF later = {} THEN Len(pkgs) + 1
        ELSE CHOOSE j \in later : \A k \in later : j <= k

AfterIterationBreak(pkgs, excl, i, rc) ==
    IF Truthy(rc) THEN Len(pkgs) + 1 ELSE NextIndex(pkgs, excl, i)

\* Where the for loop goes after the iteration at index i ended with exit
\* code rc: the loop body has no break and no return.
AfterIteration(pkgs, excl, i, rc) == NextIndex(pkgs, excl, i)

QueryFailedNever(rc) == FALSE

\* "if retcode: raise RuntimeError(...)"
QueryFailed(rc) == Truthy(rc)

OverallAfterLastWins(overall, rc) == IF Truthy(rc) THEN "Failed" ELSE "Success"

\* "if retcode: overall_result = 'Failed'"
OverallAfter(overall, rc) == IF Truthy(rc) THEN "Failed" ELSE overall

\* "return overall_result"
BatchReturnValue(overall) == <<overall>>

SeedCurrent(staging, p) ==
    update_build_result(BuildResult(p, staging[p][1], "current"),
                        <<>>, 0, <<>>, NoMatch)

\* The record of a staging package after the seeding call
\* update_build_result(cmd=[], retcode=0, output="", work_dir): its version
\* is the published one, so work_dir is not consulted.
Seed(staging, p) ==
    update_build_result(BuildResult(p, staging[p][1], staging[p][2]),
                        <<>>, 0, <<>>, NoMatch)

\* build_results after the seeding loop
SeededResults(staging) ==
    [p \in DOMAIN staging |-> BuildAfterWrite(Seed(staging, p))]

SeededLogsNone(lg, staging) == lg

\* The log directory after the seeding loop has flushed every record
SeededLogs(lg, staging) ==
    LET paths == { LogfilePath(Seed(staging, p), LogDir) : p \in DOMAIN staging }
    IN  [q \in DOMAIN lg \cup paths |->
           IF q \in paths
           THEN Seed(staging, CHOOSE p \in DOMAIN staging :
                                 LogfilePath(Seed(staging, p), LogDir) = q).output
           ELSE lg[q]]

ActivityRecord(name, path, rc) == [name |-> name, path |-> path, retcode |-> rc]

InitBatch ==
    /\ kind = "BackportOMatic"
    /\ package_name = <<>>
    /\ check_proposed = TRUE
    /\ pc = "await_staging"
    /\ build = BuildResult(<<>>, <<>>, "current")
    /\ constructed = build
    /\ retcode = 0
    /\ result = NoResult
    /\ \E fs \in BatchFsStates : dirs = fs.dirs /\ files = fs.files
    /\ logs = NoLogs
    /\ invoked = <<>>
    /\ outcomes = <<>>
    /\ merged = 0
    /\ flushes = 0
    /\ returned = <<>>
    /\ overall_result = "Success"
    /\ build_results = NoResults
    /\ calls = <<>>
    /\ exclude_list \in ExcludeLists
    /\ staging_packages = NoResults
    /\ packages = <<>>
    /\ position = 0
    /\ finals = <<>>
    /\ activities = <<>>
    /\ error = ""
    /\ NoAux

BeginPipelineCarrying(pkgs, j) ==
    /\ package_name' = pkgs[j]
    /\ build' = BuildResult(pkgs[j], <<>>, StatusAfter(build, result.retcode))
    /\ constructed' = build'
    /\ invoked' = <<PREPARE>>
    /\ outcomes' = <<>>
    /\ merged' = 0
    /\ flushes' = 0
    /\ position' = j
    /\ pc' = "await"

\* The loop reaches the package at index j of pkgs: a fresh record is
\* constructed and PREPARE is scheduled.
BeginPipeline(pkgs, j) ==
    /\ package_name' = pkgs[j]
    /\ build' = BuildResult(pkgs[j], <<>>, "current")
    /\ constructed' = build'
    /\ invoked' = <<PREPARE>>
    /\ outcomes' = <<>>
    /\ merged' = 0
    /\ flushes' = 0
    /\ position' = j
    /\ pc' = "await"

\* get_staging_packages returns; the workflow seeds and flushes one record
\* per staging package and schedules the outdated query.
GetStagingPackages ==
    /\ pc = "await_staging"
    /\ \E staging \in StagingMaps :
         /\ staging_packages' = staging
         /\ build_results' = SeededResults(staging)
         /\ logs' = SeededLogs(logs, staging)
    /\ activities' = Append(activities, ActivityRecord("get_staging_packages", <<>>, 0))
    /\ pc' = "await_outdated"
    /\ UNCHANGED <<build, retcode, result, invoked, outcomes, merged, flushes,
                   returned, overall_result, calls, exclude_list, packages,
                   position, finals, error>>
    /\ UNCHANGED fsVars /\ UNCHANGED <<kind, package_name, check_proposed, constructed>>
    /\ UNCHANGED auxVars

\* get_outdated_packages returns a truthy exit code: the workflow raises
\* RuntimeError.
GetOutdatedFails ==
    /\ pc = "await_outdated"
    /\ \E rc \in RetCodes, out \in QueryStdouts :
         /\ QueryFailed(rc)
         /\ retcode' = rc
         /\ activities' = Append(activities,
                                 ActivityRecord("get_outdated_packages", <<>>, rc))
    /\ error' = "RuntimeError"
    /\ pc' = "workflow_failed"
    /\ UNCHANGED <<build, result, logs, invoked, outcomes, merged, flushes,
                   returned, overall_result, build_results, calls, exclude_list,
                   staging_packages, packages, position, finals>>
    /\ UNCHANGED fsVars /\ UNCHANGED <<kind, package_name, check_proposed, constructed>>
    /\ UNCHANGED auxVars

\* get_outdated_packages returns exit code 0: the workflow parses the names
\* and enters the loop, up to the first await it reaches.
GetOutdatedPackages ==
    /\ pc = "await_outdated"
    /\ \E rc \in RetCodes, out \in QueryStdouts :
         /\ ~QueryFailed(rc)
         /\ retcode' = rc
         /\ activities' = Append(activities,
                                 ActivityRecord("get_outdated_packages", <<>>, rc))
         /\ packages' = ParsePackages(out)
         /\ LET j == NextIndex(packages', exclude_list, 0)
            IN  IF j <= Len(packages')
                THEN BeginPipeline(packages', j)
                ELSE /\ position' = j
                     /\ pc' = "await_render_css"
                     /\ UNCHANGED <<package_name, build, constructed, invoked,
                                    outcomes, merged, flushes>>
    /\ UNCHANGED <<result, logs, returned, overall_result, build_results, calls,
                   exclude_list, staging_packages, finals, error>>
    /\ UNCHANGED fsVars /\ UNCHANGED <<kind, check_proposed>>
    /\ UNCHANGED auxVars

\* The workflow receives the outcome of the last step of a pipeline, merges
\* it, records a failure, flushes and stores the record, and goes on to the
\* next package or, after the last one, to rendering.
FinishPackage ==
    /\ pc = "resume"
    /\ ~Advance(CurrentStep, result.retcode)
    /\ \E first \in GlobFirsts(build.package, dirs, logs) :
         /\ ~VersionRaises(build, first)
         /\ LET b   == update_build_result(build, result.cmd, result.retcode,
                                           result.output, first)
                fin == Finalize(b, LogDirOf(kind), logs)
                j   == AfterIteration(packages, exclude_list, position, result.retcode)
            IN  /\ logs' = fin.logs
                /\ build_results' = ResultsAfterStore(build_results, package_name,
                                                      fin.build)
                /\ finals' = Append(finals,
                     [package |-> package_name, steps |-> invoked,
                      retcode |-> result.retcode, status |-> fin.build.status,
                      log_file |-> fin.log_file, flushes |-> flushes + fin.writes])
                /\ IF j <= Len(packages)
                   THEN BeginPipeline(packages, j)
                   ELSE /\ build' = fin.build
                        /\ merged' = merged + 1
                        /\ flushes' = flushes + fin.writes
                        /\ position' = j
                        /\ pc' = "await_render_css"
                        /\ UNCHANGED <<package_name, constructed, invoked, outcomes>>
    /\ retcode' = result.retcode
    /\ overall_result' = OverallAfter(overall_result, result.retcode)
    /\ UNCHANGED <<result, returned, calls, exclude_list, staging_packages,
                   packages, activities, error>>
    /\ UNCHANGED fsVars /\ UNCHANGED <<kind, check_proposed>>
    /\ UNCHANGED auxVars

\* A step of a pipeline exceeds start_to_close_timeout and the runtime
\* delivers the failure: execute_activity raises ActivityError at the
\* await, which nothing in the workflow catches.
StepTimesOut ==
    /\ pc = "await"
    /\ error' = "ActivityError(TimeoutError)"
    /\ pc' = "workflow_failed"
    /\ UNCHANGED <<build, retcode, result, logs, invoked, outcomes, merged, flushes,
                   returned, overall_result, build_results, calls, exclude_list,
                   staging_packages, packages, position, finals, activities>>
    /\ UNCHANGED fsVars /\ UNCHANGED <<kind, package_name, check_proposed, constructed>>
    /\ UNCHANGED auxVars

\* The awaits of the batch outside a pipeline, in program order.
BatchAwaits ==
    <<"await_staging", "await_outdated", "await_render_css", "await_render_js",
      "await_render_html", "await_publish_www", "await_publish_logs">>

\* One of the batch-level activities raises or times out and the runtime
\* delivers the failure: ActivityError at the await, uncaught. With utils.py
\* as it stands this is what get_outdated_packages (keyword redirect_stderr)
\* and the render activities (utils.render_file, utils.get_template_path,
\* utils.get_render_dest_path) do on every attempt; the actions in which
\* they return model the workflow's handling of their results.
BatchActivityFails ==
    /\ \E i \in 1..Len(BatchAwaits) : pc = BatchAwaits[i]
    /\ error' = "ActivityError"
    /\ pc' = "workflow_failed"
    /\ UNCHANGED <<build, retcode, result, logs, invoked, outcomes, merged, flushes,
                   returned, overall_result, build_results, calls, exclude_list,
                   staging_packages, packages, position, finals, activities>>
    /\ UNCHANGED fsVars /\ UNCHANGED <<kind, package_name, check_proposed, constructed>>
    /\ UNCHANGED auxVars

\* render_css, render_js and render_html return in turn; the next activity
\* is scheduled.
Render ==
    /\ \E r \in {"css", "js", "html"} :
         /\ pc = "await_render_" \o r
         /\ activities' = Append(activities, ActivityRecord("render_" \o r, WwwDir, 0))
         /\ pc' = CASE r = "css" -> "await_render_js"
                    [] r = "js" -> "await_render_html"
                    [] r = "html" -> "await_publish_www"
    /\ UNCHANGED <<build, retcode, result, logs, invoked, outcomes, merged, flushes,
                   returned, overall_result, build_results, calls, exclude_list,
                   staging_packages, packages, position, finals, error>>
    /\ UNCHANGED fsVars /\ UNCHANGED <<kind, package_name, check_proposed, constructed>>
    /\ UNCHANGED auxVars

\* swift_publish(novarc, www_dir) returns its code; the workflow does not
\* bind the value and schedules the second publish.
PublishSite ==
    /\ pc = "await_publish_www"
    /\ \E rc \in RetCodes :
         activities' = Append(activities, ActivityRecord("swift_publish", WwwDir, rc))
    /\ pc' = "await_publish_logs"
    /\ UNCHANGED <<build, retcode, result, logs, invoked, outcomes, merged, flushes,
                   returned, overall_result, build_results, calls, exclude_list,
                   staging_packages, packages, position, finals, error>>
    /\ UNCHANGED fsVars /\ UNCHANGED <<kind, package_name, check_proposed, constructed>>
    /\ UNCHANGED auxVars

\* swift_publish(novarc, build_log_dir, ...) returns its code; the workflow
\* does not bind the value and returns overall_result.
PublishLogs ==
    /\ pc = "await_publish_logs"
    /\ \E rc \in RetCodes :
         activities' = Append(activities, ActivityRecord("swift_publish", LogDir, rc))
    /\ returned' = BatchReturnValue(overall_result)
    /\ pc' = "batch_done"
    /\ UNCHANGED <<build, retcode, result, logs, invoked, outcomes, merged, flushes,
                   overall_result, build_results, calls, exclude_list,
                   staging_packages, packages, position, finals, error>>
    /\ UNCHANGED fsVars /\ UNCHANGED <<kind, package_name, check_proposed, constructed>>
    /\ UNCHANGED auxVars

NextBatch ==
    \/ GetStagingPackages
    \/ GetOutdatedFails
    \/ GetOutdatedPackages
    \/ RunActivity
    \/ ResumeAdvance
    \/ ResumeRaises
    \/ FinishPackage
    \/ StepTimesOut
    \/ BatchActivityFails
    \/ Render
    \/ PublishSite
    \/ PublishLogs

SpecBatch == InitBatch /\ [][NextBatch]_vars

\* The variables outside the launchers, the scheduler and the credentials
\* parser, and their values while no run is looked at.
coreVars == <<runVars, wfVars, fsVars, batchVars, build, logs, calls>>
Idle ==
    /\ kind = "none"
    /\ package_name = <<>>
    /\ check_proposed = FALSE
    /\ pc = "idle"
    /\ build = BuildResult(<<>>, <<>>, "current")
    /\ constructed = build
    /\ retcode = 0
    /\ result = NoResult
    /\ dirs = {}
    /\ files = {}
    /\ logs = NoLogs
    /\ invoked = <<>>
    /\ outcomes = <<>>
    /\ merged = 0
    /\ flushes = 0
    /\ returned = <<>>
    /\ overall_result = "Success"
    /\ build_results = NoResults
    /\ calls = <<>>
    /\ NoBatch

\* -------------------------------------------------------- the scheduler
\* The three launchers submit executions under the workflow ids they
\* compute; the server refuses an id that is already running. An execution
\* is followed as far as the package its pipeline is working on.
MaxRunning == 3
Bobcat == <<"bobcat">>
SchedSeries == {OsSeries, Bobcat}
SchedPackages == {Nova, Glance}
OtherWorkDir == <<"wd2">>
SchedWorkDirs == {WorkDir, OtherWorkDir}

\* The outdated lists a batch execution works through.
SchedOutdated == { <<Nova>>, <<Glance, Nova>> }

\* workflow_id as each async_main computes it
WorkflowId(k, series, package) ==
    CASE k = "BackportOMatic"  -> <<"backport-o-matic-">> \o series
      [] k = "BackportPackage" -> <<"backport-package-">> \o series \o <<"-">> \o package
      [] k = "ArchiveBackport" -> <<"archive-backport-">> \o series \o <<"-">> \o package

\* An execution of a single-package workflow: its pipeline is active from
\* start to end.
SingleExecution(k, series, package, wd) ==
    [id |-> WorkflowId(k, series, package), kind |-> k, os_series |-> series,
     work_dir |-> wd, todo |-> <<package>>, at |-> 1, closed |-> FALSE]

\* An execution of the batch workflow: at = 0 before the loop, the index of
\* the package being processed in the loop, Len(todo) + 1 after it.
BatchExecution(series, todo, wd) ==
    [id |-> WorkflowId("BackportOMatic", series, <<>>), kind |-> "BackportOMatic",
     os_series |-> series, work_dir |-> wd, todo |-> todo, at |-> 0,
     closed |-> FALSE]

\* The package whose pipeline the execution is running, <<>> if none.
ActivePackage(e) ==
    IF ~e.closed /\ e.at \in 1..Len(e.todo) THEN e.todo[e.at] ELSE <<>>

\* client.execute_workflow(..., id=workflow_id): accepted unless an
\* execution with that id is running.
Admitted(e, run) == \A r \in run : r.id = e.id => r.closed

\* The executions after e has been accepted: e takes the place of a closed
\* execution of the same id.
AfterLaunch(e, run) == { r \in run : r.id # e.id } \cup {e}

InitScheduler ==
    /\ Idle
    /\ running = {}
    /\ replayed = 0
    /\ cli = NoCli
    /\ novarc = <<>>
    /\ env = NoLogs
    /\ parsed = 0
    /\ publish = NoPublish
    /\ scan = <<>>

LaunchSingle ==
    /\ Cardinality(running) < MaxRunning
    /\ \E k \in {"BackportPackage", "ArchiveBackport"}, series \in SchedSeries,
          package \in SchedPackages, wd \in SchedWorkDirs :
         /\ Admitted(SingleExecution(k, series, package, wd), running)
         /\ running' = AfterLaunch(SingleExecution(k, series, package, wd), running)
    /\ UNCHANGED coreVars
    /\ UNCHANGED <<replayed, cli, novarc, env, parsed, publish, scan>>

LaunchBatch ==
    /\ Cardinality(running) < MaxRunning
    /\ \E series \in SchedSeries, todo \in SchedOutdated, wd \in SchedWorkDirs :
         /\ Admitted(BatchExecution(series, todo, wd), running)
         /\ running' = AfterLaunch(BatchExecution(series, todo, wd), running)
    /\ UNCHANGED coreVars
    /\ UNCHANGED <<replayed, cli, novarc, env, parsed, publish, scan>>

\* A batch execution enters its loop or moves on to the next package.
BatchStep ==
    /\ \E e \in running :
         /\ e.kind = "BackportOMatic"
         /\ ~e.closed
         /\ e.at <= Len(e.todo)
         /\ running' = (running \ {e}) \cup {[e EXCEPT !.at = e.at + 1]}
    /\ UNCHANGED coreVars
    /\ UNCHANGED <<replayed, cli, novarc, env, parsed, publish, scan>>

\* An execution ends: a single-package one after its pipeline, a batch one
\* after its loop.
Complete ==
    /\ \E e \in running :
         /\ ~e.closed
         /\ e.kind = "BackportOMatic" => e.at > Len(e.todo)
         /\ running' = (running \ {e}) \cup {[e EXCEPT !.closed = TRUE]}
    /\ UNCHANGED coreVars
    /\ UNCHANGED <<replayed, cli, novarc, env, parsed, publish, scan>>

NextScheduler ==
    \/ LaunchSingle
    \/ LaunchBatch
    \/ BatchStep
    \/ Complete

SpecScheduler == InitScheduler /\ [][NextScheduler]_vars

\* ------------------------------------------------ the batch launcher
\* async_main of workflows/backport_o_matic.py, one action per segment
\* between its awaits, followed by the execution it submitted.
Jammy == <<"jammy">>
CliSeries == {OsSeries, Jammy}
SiteDir == <<"site">>

\* utils.OS_SERIES_BACKPORTING.keys()
OS_SERIES_BACKPORTING == {OsSeries, Bobcat}

\* The directories that exist when the launcher starts (www_dir and
\* build_log_dir are inside site_dir).
CliExisting ==
    { {}, {WorkDir, SiteDir}, {WorkDir, SiteDir, WwwDir, LogDir} }

\* if not os.path.isdir(d): os.mkdir(d), for the four directories in order
Mkdirs(existing) ==
    SelectSeq(<<WorkDir, SiteDir, WwwDir, LogDir>>, LAMBDA d : d \notin existing)

CliErrorSeries == "Value specified for --os-series is not valid"
CliErrorNovarc == "{novarc} file does not exist"

CliErrorSeriesOnly(series, isfile) ==
    IF series \notin OS_SERIES_BACKPORTING THEN CliErrorSeries ELSE ""

\* The two checks at the top of async_main: the message of the RuntimeError
\* raised, "" when both pass.
CliError(series, isfile) ==
    IF series \notin OS_SERIES_BACKPORTING THEN CliErrorSeries
    ELSE IF ~isfile THEN CliErrorNovarc
    ELSE ""

InitCli ==
    /\ Idle
    /\ running = {}
    /\ replayed = 0
    /\ novarc = <<>>
    /\ env = NoLogs
    /\ parsed = 0
    /\ publish = NoPublish
    /\ scan = <<>>
    /\ cli \in [pc : {"parse"}, os_series : CliSeries, novarc_isfile : BOOLEAN,
                connected : {FALSE}, made : {<<>>}, submitted : {FALSE},
                error : {""}]

\* Options are parsed and validated; Client.connect is awaited if they pass.
CliValidate ==
    /\ cli.pc = "parse"
    /\ cli' = IF CliError(cli.os_series, cli.novarc_isfile) # ""
              THEN [cli EXCEPT !.pc = "raised",
                               !.error = CliError(cli.os_series, cli.novarc_isfile)]
              ELSE [cli EXCEPT !.pc = "connecting"]
    /\ UNCHANGED coreVars
    /\ UNCHANGED <<running, replayed, novarc, env, parsed, publish, scan>>

\* Client.connect raises.
CliConnectFails ==
    /\ cli.pc = "connecting"
    /\ cli' = [cli EXCEPT !.pc = "raised", !.error = "connect"]
    /\ UNCHANGED coreVars
    /\ UNCHANGED <<running, replayed, novarc, env, parsed, publish, scan>>

\* Client.connect returns: the directories are made and execute_workflow
\* sends the start request.
CliConnect ==
    /\ cli.pc = "connecting"
    /\ \E existing \in CliExisting :
         cli' = [cli EXCEPT !.pc = "submitting", !.connected = TRUE,
                            !.made = Mkdirs(existing)]
    /\ UNCHANGED coreVars
    /\ UNCHANGED <<running, replayed, novarc, env, parsed, publish, scan>>

\* The server records the execution; the launcher waits for its result.
CliSubmit ==
    /\ cli.pc = "submitting"
    /\ cli' = [cli EXCEPT !.pc = "await_result", !.submitted = TRUE]
    /\ UNCHANGED coreVars
    /\ UNCHANGED <<running, replayed, novarc, env, parsed, publish, scan>>

\* A worker starts BackportOMatic.run with the launcher's arguments.
WorkflowStarts ==
    /\ cli.submitted
    /\ pc = "idle"
    /\ kind' = "BackportOMatic"
    /\ check_proposed' = TRUE
    /\ pc' = "await_staging"
    /\ \E fs \in BatchFsStates : dirs' = fs.dirs /\ files' = fs.files
    /\ exclude_list' \in ExcludeLists
    /\ UNCHANGED <<package_name, build, constructed, retcode, result, logs, invoked,
                   outcomes, merged, flushes, returned, overall_result,
                   build_results, calls, staging_packages, packages, position,
                   finals, activities, error>>
    /\ UNCHANGED auxVars

\* execute_workflow returns the workflow's result or raises its failure.
CliResult ==
    /\ cli.pc = "await_result"
    /\ pc \in {"batch_done", "workflow_failed"}
    /\ cli' = IF pc = "batch_done" THEN [cli EXCEPT !.pc = "printed"]
              ELSE [cli EXCEPT !.pc = "raised", !.error = "workflow"]
    /\ UNCHANGED coreVars
    /\ UNCHANGED <<running, replayed, novarc, env, parsed, publish, scan>>

NextCli ==
    \/ CliValidate
    \/ CliConnectFails
    \/ CliConnect
    \/ CliSubmit
    \/ WorkflowStarts
    \/ CliResult
    \/ NextBatch

SpecCli == InitCli /\ [][NextCli]_vars

\* ------------------------------------------------- the credentials file
\* utils.os_auth_env: the file is a sequence of lines as readlines() gives
\* them; parsed is 1 once the call returned and -1 once it raised.
NovarcLines ==
    { <<"export ", "OS_USERNAME", "=", "\"", "admin", "\"", "\n">>,
      <<"export ", "OS_AUTH_URL", "=", "http://k/v3?a", "=", "b", "\n">>,
      <<"\n">>,
      <<"#", " ", "comment", "\n">>,
      <<"OS_REGION", "=", "r1", "\n">>,
      <<"export ", "OS_PASSWORD", "\n">> }

RECURSIVE SeqsUpTo(_, _)
SeqsUpTo(S, n) ==
    IF n = 0 THEN { <<>> }
    ELSE LET shorter == SeqsUpTo(S, n - 1)
         IN  shorter \cup { Append(q, x) : q \in { r \in shorter : Len(r) = n - 1 }, x \in S }

NovarcFiles == SeqsUpTo(NovarcLines, MaxLines)

\* line.replace(tok, "") for the two texts os_auth_env removes
Remove(line, tok) == SelectSeq(line, LAMBDA t : t # tok)

\* The line after the two replace calls and rstrip()
CleanLine(line) == RStrip(Remove(Remove(line, "export "), "\""))

\* line.split("=")[1] raises IndexError
LineRaises(line) == Len(Split(CleanLine(line), <<"=">>)) < 2

\* env after the loop body has run on the lines of f in order
RECURSIVE EnvAfter(_, _)
EnvAfter(f, e) ==
    IF f = <<>> THEN e
    ELSE LET parts == Split(CleanLine(Head(f)), <<"=">>)
             var   == parts[1]
             val   == parts[2]
         IN  EnvAfter(Tail(f),
                      [k \in DOMAIN e \cup {var} |-> IF k = var THEN val ELSE e[k]])

InitNovarc ==
    /\ Idle
    /\ running = {}
    /\ replayed = 0
    /\ cli = NoCli
    /\ novarc \in NovarcFiles
    /\ env = NoLogs
    /\ parsed = 0
    /\ publish = NoPublish
    /\ scan = <<>>

os_auth_env ==
    /\ parsed = 0
    /\ \A i \in 1..Len(novarc) : ~LineRaises(novarc[i])
    /\ env' = EnvAfter(novarc, NoLogs)
    /\ parsed' = 1
    /\ UNCHANGED coreVars
    /\ UNCHANGED <<running, replayed, cli, novarc, publish, scan>>

\* A line without "=" ends the call with IndexError; no environment is
\* returned.
os_auth_envRaises ==
    /\ parsed = 0
    /\ \E i \in 1..Len(novarc) : LineRaises(novarc[i])
    /\ parsed' = 0 - 1
    /\ UNCHANGED coreVars
    /\ UNCHANGED <<running, replayed, cli, novarc, env, publish, scan>>

NextNovarc ==
    \/ os_auth_env
    \/ os_auth_envRaises

SpecNovarc == InitNovarc /\ [][NextNovarc]_vars

\* ------------------------------------------------------ the publisher
\* The swift_publish activity, one action per segment between its awaits.
\* The workflow calls it with (novarc, www_dir) and with
\* (novarc, build_log_dir, "content-type:text/plain").
PlainText == <<"content-type:text/plain">>
PublishArgs == { <<WwwDir, <<>> >>, <<LogDir, PlainText>> }

SwiftUpload(path, header) ==
    IF header # <<>>
    THEN <<"swift", "upload", "reports", "--object-name", "backport-o-matic", "--header">>
           \o header \o path
    ELSE <<"swift", "upload", "reports", "--object-name", "backport-o-matic">> \o path

SwiftPost == <<"swift", "post", "--read-acl", ".r:*,.rlistings", "reports">>

SwiftCmdsPostFirst(path, header) == <<SwiftPost, SwiftUpload(path, header)>>

\* cmds as swift_publish builds the list
SwiftCmds(path, header) == <<SwiftUpload(path, header), SwiftPost>>

InitPublish ==
    /\ Idle
    /\ running = {}
    /\ replayed = 0
    /\ cli = NoCli
    /\ novarc \in NovarcFiles
    /\ env = NoLogs
    /\ parsed = 0
    /\ \E a \in PublishArgs :
         publish = [pc |-> "start", path |-> a[1], header |-> a[2], started |-> <<>>,
                    codes |-> <<>>, ret |-> <<>>]
    /\ scan = <<>>

\* The activity starts: the credentials are parsed, the list of commands is
\* built and the first one is started.
swift_publishStarts ==
    /\ publish.pc = "start"
    /\ \A i \in 1..Len(novarc) : ~LineRaises(novarc[i])
    /\ env' = EnvAfter(novarc, NoLogs)
    /\ parsed' = 1
    /\ publish' = [publish EXCEPT !.pc = "await",
                     !.started = <<SwiftCmds(publish.path, publish.header)[1]>>]
    /\ UNCHANGED coreVars
    /\ UNCHANGED <<running, replayed, cli, novarc, scan>>

\* os_auth_env raises: the activity fails before any command.
swift_publishRaises ==
    /\ publish.pc = "start"
    /\ \E i \in 1..Len(novarc) : LineRaises(novarc[i])
    /\ parsed' = 0 - 1
    /\ publish' = [publish EXCEPT !.pc = "raised"]
    /\ UNCHANGED coreVars
    /\ UNCHANGED <<running, replayed, cli, novarc, env, scan>>

\* The command that was started returns its code: a truthy code is
\* returned at once, otherwise the next command is started, and after the
\* last one the code is returned.
CommandReturns ==
    /\ publish.pc = "await"
    /\ \E rc \in RetCodes :
         LET cmds == SwiftCmds(publish.path, publish.header)
             n    == Len(publish.started)
         IN  publish' =
               IF Truthy(rc) \/ n = Len(cmds)
               THEN [publish EXCEPT !.pc = "returned",
                                    !.codes = Append(publish.codes, rc),
                                    !.ret = <<rc>>]
               ELSE [publish EXCEPT !.codes = Append(publish.codes, rc),
                                    !.started = Append(publish.started, cmds[n + 1])]
    /\ UNCHANGED coreVars
    /\ UNCHANGED <<running, replayed, cli, novarc, env, parsed, scan>>

NextPublish ==
    \/ swift_publishStarts
    \/ swift_publishRaises
    \/ CommandReturns

SpecPublish == InitPublish /\ [][NextPublish]_vars

\* ------------------------------------------------ the outdated query
\* get_outdated_packages as activities/backport_o_matic.py and utils.py
\* define it. The workflow schedules it with a start-to-close timeout only,
\* so the runtime starts a new attempt after each failed one.
OutdatedCmd == << <<"cloud-archive-outdated-packages">>, <<"--proposed">>, OsSeries >>

\* The parameters of utils.asyncio_create_subprocess_exec
ExecParams == {"cmd", "env"}

\* The keyword arguments get_outdated_packages passes to it
OutdatedKeywords == {"redirect_stderr"}

\* What the status tool writes to stderr
QueryStderrs == { <<>>, <<"W:", " ", "deprecated", "\n">> }

\* stdout=PIPE, stderr=STDOUT: one pipe receives both streams
Captured(out, err) == out \o err

QueryAttempts ==
    Len(SelectSeq(activities, LAMBDA a : a.name = "get_outdated_packages"))

get_outdated_packages ==
    /\ pc = "await_outdated"
    /\ QueryAttempts < MaxAttempts
    /\ IF ~(OutdatedKeywords \subseteq ExecParams)
       THEN \* TypeError: unexpected keyword argument; no process is started
            /\ activities' = Append(activities,
                                    ActivityRecord("get_outdated_packages", <<>>, None))
            /\ error' = "TypeError"
            /\ UNCHANGED <<result, pc>>
       ELSE \E rc \in RetCodes, out \in QueryStdouts, err \in QueryStderrs :
            /\ activities' = Append(activities,
                                    ActivityRecord("get_outdated_packages", <<>>, rc))
            /\ result' = [cmd |-> OutdatedCmd, retcode |-> rc,
                          output |-> Captured(out, err)]
            /\ pc' = "received_outdated"
            /\ UNCHANGED error
    /\ UNCHANGED <<build, retcode, logs, invoked, outcomes, merged, flushes,
                   returned, overall_result, build_results, calls, exclude_list,
                   staging_packages, packages, position, finals>>
    /\ UNCHANGED fsVars /\ UNCHANGED <<kind, package_name, check_proposed, constructed>>
    /\ UNCHANGED auxVars

NextQuery ==
    \/ GetStagingPackages
    \/ get_outdated_packages

SpecQuery == InitBatch /\ [][NextQuery]_vars

\* ------------------------------------------- packages sharing a prefix
\* A batch over two source packages of which one is named as the other plus
\* "-lib" (as neutron and neutron-lib are), with the build directories the
\* PREPARE steps of such packages leave in work_dir.
NovaLib == <<"nova", "-", "lib">>

PairFsStates ==
    { [dirs |-> {<<"nova", "-", "lib", "-", "1">>}, files |-> {}],
      [dirs |-> {<<"nova", "-", "1">>, <<"nova", "-", "lib", "-", "1">>}, files |-> {}],
      [dirs |-> {<<"nova", "-", "1">>, <<"nova", "-", "lib", "-", "1">>},
       files |-> { f \in FileUniverse : f.dir = <<"nova", "-", "1">> }] }

\* What cloud-archive-outdated-packages prints for the two packages.
PairStdouts ==
    { Nova \o <<" ">> \o NovaLib \o <<"\n">>,
      NovaLib \o <<" ">> \o Nova \o <<"\n">>,
      NovaLib \o <<"\n">> }

InitPair ==
    /\ kind = "BackportOMatic"
    /\ package_name = <<>>
    /\ check_proposed = TRUE
    /\ pc = "await_staging"
    /\ build = BuildResult(<<>>, <<>>, "current")
    /\ constructed = build
    /\ retcode = 0
    /\ result = NoResult
    /\ \E fs \in PairFsStates : dirs = fs.dirs /\ files = fs.files
    /\ logs = NoLogs
    /\ invoked = <<>>
    /\ outcomes = <<>>
    /\ merged = 0
    /\ flushes = 0
    /\ returned = <<>>
    /\ overall_result = "Success"
    /\ build_results = NoResults
    /\ calls = <<>>
    /\ exclude_list \in ExcludeLists
    /\ staging_packages = NoResults
    /\ packages = <<>>
    /\ position = 0
    /\ finals = <<>>
    /\ activities = <<>>
    /\ error = ""
    /\ NoAux

\* get_outdated_packages returns exit code 0 and the names of the two
\* packages: the workflow parses them and enters the loop.
GetOutdatedPair ==
    /\ pc = "await_outdated"
    /\ \E out \in PairStdouts :
         /\ retcode' = 0
         /\ activities' = Append(activities,
                                 ActivityRecord("get_outdated_packages", <<>>, 0))
         /\ packages' = ParsePackages(out)
         /\ LET j == NextIndex(packages', exclude_list, 0)
            IN  IF j <= Len(packages')
                THEN BeginPipeline(packages', j)
                ELSE /\ position' = j
                     /\ pc' = "await_render_css"
                     /\ UNCHANGED <<package_name, build, constructed, invoked,
                                    outcomes, merged, flushes>>
    /\ UNCHANGED <<result, logs, returned, overall_result, build_results, calls,
                   exclude_list, staging_packages, finals, error>>
    /\ UNCHANGED fsVars /\ UNCHANGED <<kind, check_proposed>>
    /\ UNCHANGED auxVars

NextPair ==
    \/ GetStagingPackages
    \/ GetOutdatedPair
    \/ RunActivity
    \/ ResumeAdvance
    \/ FinishPackage
    \/ StepTimesOut
    \/ BatchActivityFails
    \/ Render
    \/ PublishSite
    \/ PublishLogs

SpecPair == InitPair /\ [][NextPair]_vars

\* ================================================================ claims
\* The text the run has accumulated for its package: the in-memory
\* transcript until the flush, the written log file after it.
Transcript ==
    IF flushes = 0 THEN build.output
    ELSE logs[LogfilePath(build, LogDirOf(kind))]

SkipText == <<"does not exist. Skipping">>

\* An exit code that is a number other than zero.
NonZero(rc) == rc # None /\ rc # 0

\* C1: when the step at position k returned a non-zero exit code, no step
\* after k is ever invoked and no argv of a later step shows in the
\* transcript; once that outcome is merged the record's status is failed.
C1_FailureStopsPipeline ==
    \A i \in 1..Len(outcomes) :
        (~outcomes[i].raised /\ NonZero(outcomes[i].retcode)) =>
            /\ Len(invoked) = i
            /\ invoked[i] = outcomes[i].step
            /\ \A j \in (outcomes[i].step + 1)..NumSteps :
                 ~Contains(Transcript, <<ToolToken(j)>>)
            /\ (merged >= i => build.status = "failed")

\* C1 witness: BUILD failed after a good PREPARE and the run has ended.
C1_Witness ==
    /\ pc = "done"
    /\ Len(outcomes) = 2
    /\ outcomes[2].step = BUILD
    /\ NonZero(outcomes[2].retcode)
    /\ build.status = "failed"
    /\ Contains(Transcript, <<ToolToken(BUILD)>>)

\* C2: write_build_result is called exactly once per pipeline, after the
\* last invoked step has been merged and before the pipeline ends; a failing
\* step or the fourth step being merged means the flush has happened.
C2_FlushedExactlyOnce ==
    /\ flushes <= 1
    /\ (pc = "done" => flushes = 1)
    /\ (flushes = 1 =>
          /\ pc = "done"
          /\ merged = Len(invoked)
          /\ Len(outcomes) = Len(invoked)
          /\ LogfilePath(build, LogDirOf(kind)) \in DOMAIN logs)
    /\ (merged >= 1 /\ (NonZero(outcomes[merged].retcode)
                        \/ outcomes[merged].step = NumSteps)
          => flushes = 1)

\* C2 witness: a run ended by a failing step, flushed once.
C2_Witness ==
    /\ pc = "done"
    /\ flushes = 1
    /\ merged = 3
    /\ NonZero(outcomes[3].retcode)

\* C3: the steps are invoked in the order PREPARE, BUILD, SIGN, UPLOAD; a
\* step is in flight only when every earlier step has returned and been
\* merged; at most one step is in flight.
C3_StepsInOrder ==
    /\ Len(invoked) <= NumSteps
    /\ \A i \in 1..Len(invoked) : invoked[i] = i
    /\ Len(outcomes) <= Len(invoked)
    /\ \A i \in 1..Len(outcomes) : outcomes[i].step = invoked[i]
    /\ merged <= Len(outcomes)
    /\ Len(invoked) - merged \in {0, 1}
    /\ (pc = "await" => merged = Len(invoked) - 1 /\ Len(outcomes) = merged)

\* C3 witness: UPLOAD is in flight after three merged steps.
C3_Witness ==
    /\ pc = "await"
    /\ Len(invoked) = NumSteps
    /\ invoked[NumSteps] = UPLOAD
    /\ merged = 3

\* C4: BackportPackage.run and ArchiveBackport.run return (exit code of the
\* last invoked step, path returned by the flush), and the exit code is 0
\* iff all four steps were invoked and each returned 0.
C4_ReturnValue ==
    (pc = "done" /\ kind # "BackportOMatic") =>
        /\ Len(returned) = 2
        /\ returned[1] = outcomes[Len(invoked)].retcode
        /\ (returned[1] = 0 <=>
              /\ Len(invoked) = NumSteps
              /\ \A i \in 1..NumSteps : outcomes[i].retcode = 0)
        /\ returned[2] = PathJoin(LogDirOf(kind), build.logfile)
        /\ returned[2] \in DOMAIN logs

\* C4 witness: a standalone run that stopped at a failing SIGN.
C4_Witness ==
    /\ pc = "done"
    /\ kind = "ArchiveBackport"
    /\ Len(invoked) = 3
    /\ returned[1] # 0

\* C5: (backport_package activities) a BUILD that finds no .dsc returns exit
\* code 0 with a "does not exist. Skipping" message; once merged the message
\* is in the transcript and SIGN has been invoked.
C5_BuildSkipContinues ==
    kind # "ArchiveBackport" =>
        \A i \in 1..Len(outcomes) :
            (outcomes[i].step = BUILD /\ outcomes[i].absent) =>
                /\ outcomes[1].retcode = 0
                /\ outcomes[i].retcode = 0
                /\ Contains(outcomes[i].output, SkipText)
                /\ (merged >= i =>
                      /\ Contains(Transcript, SkipText)
                      /\ Len(invoked) >= SIGN
                      /\ invoked[SIGN] = SIGN)

\* C5 witness: SIGN in flight after a skipped BUILD.
C5_Witness ==
    /\ kind = "BackportPackage"
    /\ Len(outcomes) = 2
    /\ outcomes[2].absent
    /\ merged = 2
    /\ pc = "await"
    /\ CurrentStep = SIGN

IsSkip(o) ==
    /\ o.retcode = 0
    /\ o.cmd = BaseCmd(o.step)
    /\ Contains(o.output, SkipText)

C7_ArchiveSkipsAbsentArtifact ==
    kind = "ArchiveBackport" =>
        /\ pc # "activity_failed"
        /\ \A i \in 1..Len(outcomes) :
             outcomes[i].absent => ~outcomes[i].raised /\ IsSkip(outcomes[i])

\* ------------------------------------------- claims about the aggregator
\* The update_build_result calls that returned.
CompletedUpdates ==
    { i \in 1..Len(calls) : calls[i].op = "update" /\ ~calls[i].raised }

LastCall == calls[Len(calls)]

\* C8: after any sequence of update_build_result and write_build_result
\* calls, status is failed iff some completed update had a non-zero exit
\* code, and otherwise it is the status given to the constructor.
C8_StatusFailedIffNonZero ==
    LET anyNonZero == \E i \in CompletedUpdates : NonZero(calls[i].retcode)
    IN  /\ (build.status = "failed" <=> anyNonZero)
        /\ (~anyNonZero => build.status = constructed.status)

\* C8 witness: a failing update, then an update with exit code 0, then a
\* flush, and the status is still failed.
C8_Witness ==
    /\ Len(calls) = 3
    /\ CompletedUpdates = {1, 2}
    /\ calls[1].retcode = 1
    /\ calls[2].retcode = 0
    /\ calls[3].op = "write" /\ ~calls[3].raised
    /\ build.status = "failed"

\* C9: once the record has a version no step of the program changes it.
C9_VersionNeverChanges ==
    [][build.version # <<>> => build'.version = build.version]_vars

\* C9 witness: a discovered version survived a later update made while
\* work_dir held an entry that discovery would have read differently.
C9_Witness ==
    /\ Len(calls) >= 2
    /\ constructed.version = <<>>
    /\ build.version = <<"1">>
    /\ LastCall.op = "update"
    /\ ~LastCall.raised
    /\ LastCall.rival

\* An update_build_result call with empty output has just returned.
EmptyOutputUpdate ==
    /\ Len(calls') = Len(calls) + 1
    /\ calls'[Len(calls')].op = "update"
    /\ ~calls'[Len(calls')].raised
    /\ calls'[Len(calls')].output = <<>>

\* C10 as claimed: an update with empty output leaves the transcript as it
\* was.
C10_EmptyOutputAppendsNothing ==
    [][EmptyOutputUpdate => build'.output = build.output]_vars

\* The block an update with empty output writes: the command line directly
\* followed by the return-code line.
EmptyOutputBlock(c) ==
    <<"+ ">> \o Join(c.cmd, <<" ">>) \o <<"\n", "+ return code: ", PyStr(c.retcode), "\n">>

\* C10 amended: an update with empty output appends one block, the command
\* line directly followed by the return-code line, after a separating
\* newline when the transcript already has content.
C10_EmptyOutputAppendsBlock ==
    [][EmptyOutputUpdate =>
         build'.output =
            IF build.output = <<>> THEN EmptyOutputBlock(calls'[Len(calls')])
            ELSE build.output \o <<"\n">> \o EmptyOutputBlock(calls'[Len(calls')])]_vars

\* C10 witness: the last call was an update with empty output and the
\* transcript holds its block after an earlier one.
C10_Witness ==
    /\ Len(calls) = 2
    /\ CompletedUpdates = {1, 2}
    /\ calls[1].output # <<>>
    /\ LastCall.output = <<>>
    /\ Len(build.output) > Len(Formatted(calls[1].cmd, calls[1].retcode, calls[1].output))

\* The call the harness is making in this step.
ThisCall == calls'[Len(calls')]

\* A write_build_result call is made in this step (it returns or raises).
WriteCalled ==
    /\ Len(calls') = Len(calls) + 1
    /\ ThisCall.op = "write"

\* A write_build_result call returns in this step.
WriteReturned == WriteCalled /\ ~ThisCall.raised

\* An update_build_result call returns in this step.
UpdateReturned ==
    /\ Len(calls') = Len(calls) + 1
    /\ ThisCall.op = "update"
    /\ ~ThisCall.raised

\* The call wrote exactly one file, at path, holding content.
WroteOneFile(path, content) ==
    /\ DOMAIN logs' = DOMAIN logs \cup {path}
    /\ logs'[path] = content
    /\ \A p \in DOMAIN logs \ {path} : logs'[p] = logs[p]

\* C11 as claimed: a flush of an empty transcript writes no file and
\* returns an empty path; a flush of a non-empty transcript writes exactly
\* one file at log_dir/logfile and returns that path.
C11_EmptyFlushWritesNothing ==
    [][WriteCalled =>
         IF build.output = <<>>
         THEN /\ ~ThisCall.raised
              /\ logs' = logs
              /\ ThisCall.ret = <<>>
         ELSE /\ ~ThisCall.raised
              /\ ThisCall.ret = ThisCall.log_dir \o <<"/">> \o build.logfile
              /\ WroteOneFile(ThisCall.ret, build.output)]_vars

C13_FlushClearsOnlyTranscript ==
    [][WriteReturned =>
         /\ build'.output = <<>>
         /\ build'.package = build.package
         /\ build'.status = build.status
         /\ build'.version = build.version]_vars

\* C13 witness: a failed record with a version and a transcript has been
\* flushed: the file holds the transcript, the record is failed and empty.
C13_Witness ==
    /\ Len(calls) >= 2
    /\ LastCall.op = "write" /\ ~LastCall.raised
    /\ logs[LastCall.ret] # <<>>
    /\ build.output = <<>>
    /\ build.status = "failed"
    /\ build.version # <<>>

\* C14: an update_build_result call that returns keeps the transcript it
\* found as a proper prefix of the new one.
C14_TranscriptAppendOnly ==
    [][UpdateReturned =>
         /\ IsPrefix(build.output, build'.output)
         /\ Len(build'.output) > Len(build.output)]_vars

\* C14 witness: three merges with no flush in between, the transcript
\* starting with the block of the first.
C14_Witness ==
    /\ Len(calls) = 3
    /\ CompletedUpdates = {1, 2, 3}
    /\ calls[1].output # <<>>
    /\ IsPrefix(Formatted(calls[1].cmd, calls[1].retcode, calls[1].output), build.output)
    /\ Len(build.output) > 2 * Len(Formatted(calls[1].cmd, calls[1].retcode, calls[1].output))

\* ------------------------------------------------------ batch claims
\* p is named in the exclude list of the run.
InExcludeList(p) == \E i \in 1..Len(exclude_list) : exclude_list[i] = p

\* The outdated packages outside the exclude list, in query order.
Processed == SelectSeq(packages, LAMBDA p : ~InExcludeList(p))

\* The loop is over: the run is at or past the first render activity.
AfterLoop ==
    pc \in {"await_render_css", "await_render_js", "await_render_html",
            "await_publish_www", "await_publish_logs", "batch_done"}

\* C15: from the first render activity on, build_results has exactly one
\* record for every staging package and every outdated package that is not
\* in the exclude list, each under its own name, and no other entry.
C15_ResultKeys ==
    AfterLoop =>
        /\ DOMAIN build_results =
              DOMAIN staging_packages
              \cup { packages[i] : i \in { j \in 1..Len(packages) :
                                            ~InExcludeList(packages[j]) } }
        /\ \A p \in DOMAIN build_results : build_results[p].package = p

\* C15 witness: three current packages, two outdated ones of which one is
\* excluded, all names distinct: four entries when render_html is scheduled.
C15_Witness ==
    /\ pc = "await_render_html"
    /\ DOMAIN staging_packages = {Glance, Keystone, Horizon}
    /\ packages = <<Nova, NovaClient>>
    /\ exclude_list = <<NovaClient>>
    /\ Cardinality(DOMAIN build_results) = 4
    /\ NovaClient \notin DOMAIN build_results

\* C16: a batch run that returned gave "Failed" iff the pipeline of some
\* processed package ended with a non-zero exit code, "Success" otherwise,
\* whatever the states of the staging packages.
C16_OverallResult ==
    pc = "batch_done" =>
        /\ Len(finals) = Len(Processed)
        /\ returned = << IF \E k \in 1..Len(finals) : NonZero(finals[k].retcode)
                         THEN "Failed" ELSE "Success" >>

\* C16 witness: the first of two processed packages failed, the second
\* succeeded, a staging package is not current, and the run returned Failed.
C16_Witness ==
    /\ pc = "batch_done"
    /\ returned = <<"Failed">>
    /\ Len(finals) = 2
    /\ NonZero(finals[1].retcode)
    /\ finals[2].retcode = 0
    /\ \E p \in DOMAIN staging_packages : staging_packages[p][2] # "current"

\* C17: the pipelines run for the outdated packages outside the exclude
\* list, in order and without a gap, whatever exit codes earlier ones ended
\* with: each finished one began with PREPARE and was flushed once, the one
\* in progress is the next in line, and the loop is left only when every one
\* of them has finished.
C17_NoEarlyTermination ==
    /\ Len(finals) <= Len(Processed)
    /\ \A k \in 1..Len(finals) :
         /\ finals[k].package = Processed[k]
         /\ finals[k].steps[1] = PREPARE
         /\ finals[k].flushes = 1
         /\ finals[k].log_file \in DOMAIN logs
    /\ (pc \in {"await", "resume"} =>
          /\ Len(finals) < Len(Processed)
          /\ package_name = Processed[Len(finals) + 1]
          /\ invoked[1] = PREPARE)
    /\ (AfterLoop => Len(finals) = Len(Processed))

\* C17 witness: the first package failed at PREPARE and the second one then
\* went through all four steps and was flushed.
C17_Witness ==
    /\ AfterLoop
    /\ Len(finals) = 2
    /\ finals[1].steps = <<PREPARE>>
    /\ NonZero(finals[1].retcode)
    /\ finals[2].steps = <<PREPARE, BUILD, SIGN, UPLOAD>>
    /\ finals[2].log_file \in DOMAIN logs

\* The outdated query of this run returned a non-zero exit code.
QueryReturnedNonZero ==
    \E i \in 1..Len(activities) :
        /\ activities[i].name = "get_outdated_packages"
        /\ NonZero(activities[i].retcode)

\* C18: after the outdated query returned a non-zero exit code the run has
\* ended with RuntimeError: no step was scheduled for any package, no
\* render and no publish activity ran and nothing was returned.
C18_QueryFailureAborts ==
    QueryReturnedNonZero =>
        /\ pc = "workflow_failed"
        /\ error = "RuntimeError"
        /\ invoked = <<>>
        /\ outcomes = <<>>
        /\ finals = <<>>
        /\ returned = <<>>
        /\ \A i \in 1..Len(activities) :
             activities[i].name \in {"get_staging_packages", "get_outdated_packages"}

\* C18 witness: the query failed after the staging packages were seeded.
C18_Witness ==
    /\ QueryReturnedNonZero
    /\ error = "RuntimeError"
    /\ DOMAIN staging_packages # {}
    /\ DOMAIN build_results = DOMAIN staging_packages

\* C19 as claimed: after the publish of the site directory returned a
\* non-zero code, the publish of the log directory is not executed and the
\* run does not return overall_result.
C19_SitePublishFailureAborts ==
    \A i \in 1..Len(activities) :
        (/\ activities[i].name = "swift_publish"
         /\ activities[i].path = WwwDir
         /\ NonZero(activities[i].retcode))
        => /\ \A j \in (i + 1)..Len(activities) :
                ~(activities[j].name = "swift_publish" /\ activities[j].path = LogDir)
           /\ pc # "batch_done"
           /\ returned = <<>>

\* C20 as claimed: after a step of a pipeline timed out the record of that
\* package is failed and flushed and the run has not ended with an error.
C20_TimeoutMarksPackageFailed ==
    error = "ActivityError(TimeoutError)" =>
        /\ build.status = "failed"
        /\ flushes = 1
        /\ pc # "workflow_failed"

\* The names of the packages that get a pipeline in this run.
ProcessedNames == { Processed[k] : k \in 1..Len(Processed) }

\* C21: a staging package that is not processed as an outdated package
\* never has a step scheduled, and from the first render activity on its
\* record holds the version and state the staging query gave.
C21_SeededRecordsUntouched ==
    \A p \in DOMAIN staging_packages \ ProcessedNames :
        /\ \A k \in 1..Len(finals) : finals[k].package # p
        /\ (invoked # <<>> => package_name # p)
        /\ (AfterLoop =>
              /\ p \in DOMAIN build_results
              /\ build_results[p].version = staging_packages[p][1]
              /\ build_results[p].status = staging_packages[p][2])

\* C21 witness: nova is in staging as "Needs building" and is outdated but
\* excluded; another package was processed and nova's record is as seeded.
C21_Witness ==
    /\ AfterLoop
    /\ Nova \in DOMAIN staging_packages
    /\ Nova \notin ProcessedNames
    /\ \E i \in 1..Len(packages) : packages[i] = Nova
    /\ Len(finals) = 1
    /\ build_results[Nova].status = "Needs building"
    /\ build_results[Nova].version = <<"9">>

\* The run has seeded the staging packages and no pipeline has flushed yet.
JustSeeded == pc = "await_outdated"

\* C22 as claimed: seeding writes nothing to the build-log directory.
C22_SeedingWritesNoLog ==
    JustSeeded => DOMAIN logs = {}

\* C22 amended: seeding writes one file per staging package,
\* logs/package-version.build, holding the block of the seeding call: an
\* empty command line and "return code: 0".
C22_SeedingWritesLogs ==
    JustSeeded =>
        /\ DOMAIN logs =
             { LogDir \o <<"/">> \o p \o <<"-">> \o staging_packages[p][1] \o <<".build">> :
                 p \in DOMAIN staging_packages }
        /\ \A q \in DOMAIN logs : logs[q] = <<"+ ", "\n", "+ return code: ", "0", "\n">>
        /\ \A p \in DOMAIN build_results : build_results[p].output = <<>>

\* C22 witness: three staging packages seeded, three log files written.
C22_Witness ==
    /\ JustSeeded
    /\ Cardinality(DOMAIN staging_packages) = 3
    /\ Cardinality(DOMAIN logs) = 3
    /\ <<"logs", "/", "glance", "-", "3", ".build">> \in DOMAIN logs

\* C23 as claimed: no two running executions have a pipeline for the same
\* package active on the same work_dir.
C23_OnePipelinePerPackage ==
    \A e1 \in running : \A e2 \in running :
        (/\ e1 # e2
         /\ ActivePackage(e1) # <<>>
         /\ ActivePackage(e1) = ActivePackage(e2))
        => e1.work_dir # e2.work_dir

\* C24 as claimed: a run resumed by replay is where the uninterrupted run
\* was: the same record (version, status, log file name, transcript) at the
\* same await.
C24_ReplayReproducesRecord ==
    [][replayed' = replayed + 1 => (build' = build /\ pc' = pc)]_vars

\* C25 as claimed: the argv of every executed PREPARE is
\* cloud-archive-backport --suffix S --yes --release R --outdir D, then
\* --proposed iff the flag is set, then the package name, which occurs
\* nowhere else.
C25_PrepareArgv ==
    \A i \in 1..Len(outcomes) :
        (outcomes[i].step = PREPARE /\ ~outcomes[i].raised) =>
            LET cmd == outcomes[i].cmd
            IN  /\ cmd = << <<"cloud-archive-backport">>, <<"--suffix">>, <<"~cloud0">>,
                            <<"--yes">>, <<"--release">>, <<"antelope">>,
                            <<"--outdir">>, <<"wd">> >>
                          \o (IF check_proposed THEN << <<"--proposed">> >> ELSE <<>>)
                          \o <<package_name>>
                /\ Cardinality({ j \in 1..Len(cmd) : cmd[j] = package_name }) = 1

\* The batch-level activities of a run that goes through, in order.
BatchOrder ==
    << <<"get_staging_packages", <<>> >>, <<"get_outdated_packages", <<>> >>,
       <<"render_css", <<"www">> >>, <<"render_js", <<"www">> >>,
       <<"render_html", <<"www">> >>, <<"swift_publish", <<"www">> >>,
       <<"swift_publish", <<"logs">> >> >>

\* C26: the batch-level activities are executed in the order staging
\* query, outdated query, CSS, JS, HTML, publish of the site directory,
\* publish of the build-log directory, each scheduled after the one before
\* it returned; and once the first render activity is scheduled every
\* outdated package outside the exclude list has had its pipeline finished
\* and its log file written, and no pipeline is in progress.
C26_RenderAndPublishOrder ==
    /\ Len(activities) <= Len(BatchOrder)
    /\ \A i \in 1..Len(activities) :
         <<activities[i].name, activities[i].path>> = BatchOrder[i]
    /\ (pc = "await_render_css" => Len(activities) = 2)
    /\ (pc = "await_render_js" => Len(activities) = 3)
    /\ (pc = "await_render_html" => Len(activities) = 4)
    /\ (pc = "await_publish_www" => Len(activities) = 5)
    /\ (pc = "await_publish_logs" => Len(activities) = 6)
    /\ (pc = "batch_done" => Len(activities) = 7)
    /\ (pc \in {"await", "resume"} => Len(activities) = 2)
    /\ (Len(activities) > 2 =>
          /\ Len(finals) = Len(Processed)
          /\ \A k \in 1..Len(finals) :
               /\ finals[k].package = Processed[k]
               /\ finals[k].flushes = 1
               /\ finals[k].log_file \in DOMAIN logs)

\* C26 witness: a run with two processed packages has returned after all
\* seven batch-level activities.
C26_Witness ==
    /\ pc = "batch_done"
    /\ Len(finals) = 2
    /\ Len(activities) = 7
    /\ activities[6].path = <<"www">>
    /\ activities[7].path = <<"logs">>

\* C27: a merged outcome whose exit code is None leaves the status at
\* current unless a merged outcome had a non-zero code, is followed by the
\* next step when there is one, and shows in the transcript with the
\* line "+ return code: None".
C27_NoneIsSuccess ==
    \A i \in 1..Len(outcomes) :
        (outcomes[i].retcode = None /\ ~outcomes[i].raised /\ merged >= i) =>
            /\ ((\A j \in 1..merged : ~NonZero(outcomes[j].retcode))
                  => build.status = "current")
            /\ (outcomes[i].step < NumSteps =>
                  /\ Len(invoked) > i
                  /\ invoked[i + 1] = outcomes[i].step + 1)
            /\ Contains(Transcript,
                        <<"+ ">> \o Join(outcomes[i].cmd, <<" ">>) \o <<"\n">>
                          \o outcomes[i].output \o <<"+ return code: ", "None", "\n">>)

\* C27 witness: a finished run of four steps in which BUILD returned None
\* and the record is still current.
C27_Witness ==
    /\ pc = "done"
    /\ Len(outcomes) = 4
    /\ outcomes[2].retcode = None
    /\ outcomes[4].retcode = 0
    /\ build.status = "current"
    /\ Contains(Transcript, <<"+ return code: ", "None", "\n">>)

\* The launcher was given an os-series outside the supported map or a
\* credentials file that does not exist.
CliInvalid ==
    cli.os_series \notin OS_SERIES_BACKPORTING \/ ~cli.novarc_isfile

\* C28: once the batch launcher has validated an unsupported os-series or a
\* missing credentials file it has raised one of the two errors, and it
\* never connects, makes a directory or submits an execution, and no
\* workflow runs.
C28_ValidationAborts ==
    (cli.pc \notin {"none", "parse"} /\ CliInvalid) =>
        /\ cli.pc = "raised"
        /\ cli.error \in {CliErrorSeries, CliErrorNovarc}
        /\ ~cli.connected
        /\ ~cli.submitted
        /\ cli.made = <<>>
        /\ pc = "idle"

\* C28 witness: a supported series with a missing credentials file has
\* aborted the launcher.
C28_Witness ==
    /\ cli.pc = "raised"
    /\ cli.os_series \in OS_SERIES_BACKPORTING
    /\ ~cli.novarc_isfile
    /\ cli.error = CliErrorNovarc
    /\ ~cli.connected

\* The environment the credentials format describes: the lines holding the
\* token export and an "=", keyed by the text before the first "=", valued
\* by everything after it without the double quotes.
ExportLines(f) ==
    SelectSeq(f, LAMBDA line : "export " \in { line[i] : i \in 1..Len(line) }
                                /\ Contains(line, <<"=">>))
RECURSIVE DescribedEnv(_, _)
DescribedEnv(f, e) ==
    IF f = <<>> THEN e
    ELSE LET line == CleanLine(Head(f))
             at   == FindFirst(line, <<"=">>)
             var  == SubSeq(line, 1, at - 1)
             val  == SubSeq(line, at + 1, Len(line))
         IN  DescribedEnv(Tail(f),
                          [k \in DOMAIN e \cup {var} |-> IF k = var THEN val ELSE e[k]])

\* C29: once os_auth_env was called on a credentials file it has returned,
\* and the environment has exactly the entries of the export lines, each
\* valued by everything after its first "=".
C29_CredentialsParsing ==
    parsed # 0 =>
        /\ parsed = 1
        /\ env = DescribedEnv(ExportLines(novarc), NoLogs)

\* C30: in one swift_publish call the commands started are the upload and
\* then the post; when the upload returned a non-zero code the post was not
\* started and the call returned that code; a call that returned 0 had both
\* commands return 0.
C30_PublishOrder ==
    /\ Len(publish.started) <= 2
    /\ (Len(publish.started) >= 1 =>
          /\ IsPrefix(<<"swift", "upload">>, publish.started[1])
          /\ publish.started[1] = SwiftUpload(publish.path, publish.header))
    /\ (Len(publish.started) = 2 =>
          /\ publish.started[2] = SwiftPost
          /\ publish.codes # <<>>
          /\ publish.codes[1] = 0)
    /\ ((publish.codes # <<>> /\ NonZero(publish.codes[1])) =>
          /\ publish.started = <<SwiftUpload(publish.path, publish.header)>>
          /\ publish.pc = "returned"
          /\ publish.ret = <<publish.codes[1]>>)
    /\ ((publish.pc = "returned" /\ publish.ret = <<0>>) => publish.codes = <<0, 0>>)

\* C30 witness: the upload of the build logs returned 1; the call returned 1
\* with only the upload started.
C30_Witness ==
    /\ publish.pc = "returned"
    /\ publish.path = LogDir
    /\ publish.codes = <<1>>
    /\ publish.ret = <<1>>
    /\ Len(publish.started) = 1

\* The artifact paths a glob of any step can return.
ArtifactPaths ==
    { WorkDir \o <<"/">> \o f.dir \o <<"/">> \o f.name : f \in FileUniverse }

\* C31: when BUILD, SIGN or UPLOAD of the backport_package activities found
\* no artifact, the step started no process and the argv it returned is the
\* bare tool command, without an artifact path.
C31_NoLaunchWithoutArtifact ==
    \A i \in 1..Len(outcomes) :
        (/\ ActivityModule(kind) = "backport_package"
         /\ outcomes[i].step \in {BUILD, SIGN, UPLOAD}
         /\ outcomes[i].absent) =>
            /\ outcomes[i].launched = <<>>
            /\ ~outcomes[i].raised
            /\ outcomes[i].cmd = BaseCmd(outcomes[i].step)
            /\ \A j \in 1..Len(outcomes[i].cmd) : outcomes[i].cmd[j] \notin ArtifactPaths

\* C31 witness: a run whose BUILD launched sbuild on a .dsc and whose SIGN
\* found no changes file.
C31_Witness ==
    /\ ActivityModule(kind) = "backport_package"
    /\ Len(outcomes) >= 3
    /\ outcomes[2].step = BUILD /\ ~outcomes[2].absent
    /\ outcomes[2].launched = <<outcomes[2].cmd>>
    /\ outcomes[3].step = SIGN /\ outcomes[3].absent
    /\ outcomes[3].launched = <<>>

\* C32: an attempt of the outdated-package query returns the argv, an exit
\* code and the tool's stdout alone; nothing of stderr is in the output the
\* workflow parses into package names.
C32_QueryKeepsStderrApart ==
    \A i \in 1..Len(activities) :
        activities[i].name = "get_outdated_packages" =>
            /\ error = ""
            /\ activities[i].retcode \in RetCodes
            /\ result.cmd = OutdatedCmd
            /\ result.output \in QueryStdouts

\* A transcript block as the log format describes it.
Block(o) ==
    <<"+ ">> \o Join(o.cmd, <<" ">>) \o <<"\n">> \o o.output
        \o <<"+ return code: ", ToString(o.retcode), "\n">>

\* The blocks of the first n outcomes, consecutive ones separated by "\n"
\* (a blank line, since a block ends with "\n").
RECURSIVE Blocks(_, _)
Blocks(os, n) ==
    IF n = 0 THEN <<>>
    ELSE IF n = 1 THEN Block(os[1])
    ELSE Blocks(os, n - 1) \o <<"\n">> \o Block(os[n])

\* C33: the transcript is the blocks of the merged outcomes in the block
\* format, separated by one blank line; a run whose PREPARE returned a
\* non-zero code c with non-empty output has one block in its flushed log
\* file and, as a workflow of its own, returns (c, the path of that file).
C33_TranscriptFormat ==
    /\ (merged > 0 /\ pc # "workflow_failed") => Transcript = Blocks(outcomes, merged)
    /\ (/\ pc = "done"
        /\ NonZero(outcomes[1].retcode)
        /\ outcomes[1].output # <<>>) =>
            /\ Len(outcomes) = 1
            /\ flushes = 1
            /\ LogfilePath(build, LogDirOf(kind)) # <<>>
            /\ logs[LogfilePath(build, LogDirOf(kind))] =
                 <<"+ ">> \o Join(outcomes[1].cmd, <<" ">>) \o <<"\n">>
                   \o outcomes[1].output
                   \o <<"+ return code: ", ToString(outcomes[1].retcode), "\n">>
            /\ outcomes[1].cmd = prepare_package_cmd(ActivityModule(kind), package_name,
                                                     check_proposed)
            /\ (kind # "BackportOMatic" =>
                  returned = <<outcomes[1].retcode, LogfilePath(build, LogDirOf(kind))>>)

\* C33 witness: BackportPackage returned (1, log path) after PREPARE failed
\* with output.
C33_Witness ==
    /\ pc = "done"
    /\ kind = "BackportPackage"
    /\ outcomes[1].retcode = 1
    /\ outcomes[1].output # <<>>
    /\ returned[1] = 1
    /\ returned[2] \in DOMAIN logs
    /\ logs[returned[2]] = Block(outcomes[1])

\* The positions of a transcript at which a block starts.
BlockStarts(t) == { i \in 1..Len(t) : t[i] = "+ " }

\* The position at which the k-th block of t starts.
BlockStart(t, k) ==
    CHOOSE i \in BlockStarts(t) : Cardinality({ j \in BlockStarts(t) : j <= i }) = k

\* C34: at flush time the log file holds one block per invoked step, the
\* k-th block being that of the k-th invoked step, whether the step was
\* skipped or printed nothing.
C34_OneBlockPerInvokedStep ==
    (pc = "done" /\ flushes = 1) =>
        LET t == logs[LogfilePath(build, LogDirOf(kind))]
        IN  /\ merged = Len(invoked)
            /\ Cardinality(BlockStarts(t)) = Len(invoked)
            /\ Cardinality({ i \in 1..Len(t) : t[i] = "+ return code: " }) = Len(invoked)
            /\ \A k \in 1..Len(invoked) :
                 /\ outcomes[k].step = invoked[k]
                 /\ t[BlockStart(t, k) + 1] = ToolToken(invoked[k])
                 /\ IsPrefix(<<"+ ">> \o Join(outcomes[k].cmd, <<" ">>) \o <<"\n">>
                               \o outcomes[k].output \o <<"+ return code: ">>,
                             SubSeq(t, BlockStart(t, k), Len(t)))

\* C34 witness: a flushed run of four steps in which PREPARE printed
\* nothing and BUILD was skipped.
C34_Witness ==
    /\ pc = "done"
    /\ flushes = 1
    /\ kind = "BackportOMatic"
    /\ Len(invoked) = 4
    /\ outcomes[1].output = <<>>
    /\ outcomes[2].absent
    /\ ~outcomes[3].absent
    /\ Cardinality(BlockStarts(logs[LogfilePath(build, LogDirOf(kind))])) = 4

\* C35: whenever the ArchiveBackport workflow waits for a step, its activity
\* can return exactly the outcomes (argv, exit code, output) that the batch
\* pipeline's activity returns for the same package, flag and work_dir
\* contents, and does not raise; with the same merge and the same tests on
\* the exit code in both workflows, the two runs then agree step by step.
C35_ArchiveMatchesBatchPipeline ==
    (kind = "ArchiveBackport" /\ pc = "await") =>
        /\ ~ActivityRaisesOn("archive_backport", CurrentStep, package_name, dirs, files)
        /\ ActivityOutcomes("archive_backport", CurrentStep, package_name,
                            check_proposed, dirs, files)
             = ActivityOutcomes("backport_package", CurrentStep, package_name,
                                check_proposed, dirs, files)

\* C36: merging a step never fails in version discovery, and a version the
\* record has is the text after "P-" in the name of a build directory of
\* its own package P.
C36_VersionDiscoverySafe ==
    /\ pc # "workflow_failed"
    /\ (build.version # <<>> =>
          \E d \in DirNames : d = build.package \o <<"-">> \o build.version)

\* The file a launched step was run on: the last element of its argv.
ArtifactOf(o) == o.cmd[Len(o.cmd)]

\* C37: in a run whose work_dir nothing else changes, an UPLOAD that
\* launched dput on a changes file comes after a SIGN of the same run that
\* launched debsign on that same file and returned 0.
C37_UploadOnlySigned ==
    \A i \in 1..Len(outcomes) :
        (outcomes[i].step = UPLOAD /\ outcomes[i].launched # <<>>) =>
            \E j \in 1..(i - 1) :
                /\ outcomes[j].step = SIGN
                /\ outcomes[j].launched # <<>>
                /\ outcomes[j].cmd[1] = <<"debsign">>
                /\ ArtifactOf(outcomes[j]) = ArtifactOf(outcomes[i])
                /\ outcomes[j].retcode = 0

\* C37 witness: work_dir holds two changes files of nova and dput was
\* launched on the one debsign signed.
C37_Witness ==
    /\ package_name = Nova
    /\ Cardinality(ArtifactsOf(UPLOAD, package_name, dirs, files)) = 2
    /\ Len(outcomes) = 4
    /\ outcomes[4].step = UPLOAD
    /\ outcomes[4].launched # <<>>
    /\ ArtifactOf(outcomes[4]) = ArtifactOf(outcomes[3])
    /\ ArtifactOf(outcomes[4]) = WorkDir \o <<"/", "nova", "-", "2", "/">>
                                   \o <<"nova", "_", "2", "_source.changes">>

\* The versions work_dir can give a record of package p.
WorkDirVersions(p) ==
    { SubSeq(d, Len(p) + 2, Len(d)) : d \in { x \in DirNames : IsPrefix(p \o <<"-">>, x) } }

\* C38: once the pipeline of a package that is also in the staging set has
\* been stored, the result set holds under that name the pipeline's record
\* (status current or failed as the steps went, version unset or taken from
\* work_dir, transcript flushed), whatever version and state the staging
\* query gave, and not the seeded record.
C38_FreshRecordReplacesSeeded ==
    \A k \in 1..Len(finals) :
        LET p == finals[k].package
        IN  p \in DOMAIN staging_packages =>
              /\ p \in DOMAIN build_results
              /\ build_results[p].package = p
              /\ build_results[p].status = finals[k].status
              /\ build_results[p].status =
                   (IF Truthy(finals[k].retcode) THEN "failed" ELSE "current")
              /\ build_results[p].version \in {<<>>} \cup WorkDirVersions(p)
              /\ build_results[p] # SeededResults(staging_packages)[p]
              /\ PathJoin(LogDir, build_results[p].logfile) = finals[k].log_file

\* C38 witness: nova is in staging as version 9, "Needs building", and its
\* pipeline has stored a current record with the version of work_dir.
C38_Witness ==
    /\ Nova \in DOMAIN staging_packages
    /\ staging_packages[Nova][2] = "Needs building"
    /\ \E k \in 1..Len(finals) : finals[k].package = Nova /\ finals[k].status = "current"
    /\ build_results[Nova].version = <<"1">>
    /\ build_results[Nova].status = "current"

\* The steps 1..n in order.
StepsUpTo(n) == [i \in 1..n |-> i]

C40_DistinctLogPaths ==
    /\ \A j, k \in 1..Len(finals) :
          finals[j].package # finals[k].package =>
              finals[j].log_file # finals[k].log_file
    /\ \A k \in 1..Len(finals) : \A p \in DOMAIN staging_packages :
          p # finals[k].package =>
              LogfilePath(Seed(staging_packages, p), LogDir) # finals[k].log_file

====
